---- MODULE Spec2Model ----
(***************************************************************************)
(* Model of the melanzana appointment scraper (token-gated variant):       *)
(*   src/scraper.go  scrapeAppointments and its helpers                    *)
(*   src/filter.go   filterNewAppointments                                 *)
(*   src/storage.go  loadSeenAppointments / saveSeenAppointments           *)
(*   src/main.go     runScrapingCycle                                      *)
(*                                                                         *)
(* The specifications share the module:                                    *)
(*   Spec        sequential cycles of runScrapingCycle against a store     *)
(*               file and a remote source whose answers are arbitrary;     *)
(*   SpecFilter, SpecStore, SpecMonth, SpecWindow, SpecPlanner,            *)
(*   SpecConfig, SpecSpaces, SpecEmail, SpecParse, SpecCells               *)
(*               one function each, its inputs drawn from bounded sets.    *)
(*                                                                         *)
(* Strings are ASCII: the en dash the code writes between the two times of *)
(* a time range is written "-" here.                                       *)
(***************************************************************************)
EXTENDS Integers, Sequences, FiniteSets, TLC

VARIABLES
    \* ---- runScrapingCycle (Spec) ----
    pc,               \* position of the cycle: idle, load, nonce, query, refresh, retry, filter, persist
    cycle,            \* number of cycles started so far
    today,            \* time.Now() as a calendar date [y, m, d]
    MonthsLookahead,  \* config.MonthsLookahead
    file,             \* the seen store file: [kind, data]
    seenAppointments, \* main.go local
    nonce,            \* scraper.go local: the token attached to queries
    dates,            \* scraper.go local: the plan
    i,                \* scraper.go loop index (1-based)
    allAppointments,  \* scraper.go local: the scan's result so far
    newAppointments,  \* main.go local: what the cycle reports as new
    \* ---- history of the current cycle (observers, not program state) ----
    fileAtStart,      \* the store file as it was when the cycle started
    loadResult,       \* none | ok | corrupt | readerr
    saveResult,       \* none | ok | failed
    nonceResult,      \* none | ok | failed: the initial extractNonce
    queried,          \* the dates queried at least once in this cycle
    found,            \* every slot parsed from a successful answer in this cycle
    skipped,          \* the dates left by `continue` in this cycle
    dateLog,          \* the calls made for the date last handled
    callGaps,         \* the last remote call, and the call it followed with no delay, if any
    \* ---- history across cycles ----
    reportedBefore,   \* (Date, Time) pairs reported as new by earlier cycles
    ioOk,             \* every load and every save so far succeeded
    \* ---- filterNewAppointments as a pure function (SpecFilter) ----
    fPc,              \* input | filtered | refiltered
    fAppointments,    \* the candidates
    fSeen,            \* the seen list
    fResult,          \* filterNewAppointments(fAppointments, fSeen)
    fSecond,          \* filterNewAppointments(fAppointments, fSeen ++ fResult)
    \* ---- the seen store as a pair of functions (SpecStore) ----
    sPc,              \* input | saved | loaded | reloaded
    sList,            \* the list given to saveSeenAppointments
    sFile,            \* the file at the path
    sSaveErr,         \* the error saveSeenAppointments returned
    sLoaded,          \* what loadSeenAppointments returned: [appointments, err]
    \* ---- filterAppointments of the HTML variant (SpecWindow) ----
    hPc,              \* input | filtered
    hNow,             \* time.Now() as a calendar date
    hMonthsAhead,     \* monthsAhead
    hAppointments,    \* the candidates: [Month, Day, Time, IsAvailable]
    hSeen,            \* the seen list
    hResult,          \* filterAppointments(hAppointments, hSeen, hMonthsAhead)
    \* ---- generateDateRange and the plan of scrapeAppointments (SpecPlanner) ----
    pPc,              \* input | ranged | planned
    pStart,           \* startDate / time.Now()
    pDays,            \* days
    pMonths,          \* monthsAhead
    pResult,          \* the dates returned
    \* ---- monthNameToNumber (SpecMonth) ----
    mPc,              \* input | resolved
    mInput,           \* monthName, as a sequence of characters
    mResult,          \* [month, err, calls]
    \* ---- loadConfig (SpecConfig) ----
    cPc,              \* input | loaded
    cInput,           \* the command line and the config file
    cResult,          \* [config, err]
    \* ---- extractSpaces (SpecSpaces) ----
    xPc,              \* input | extracted
    xText,            \* text, as a sequence of characters
    xResult,          \* extractSpaces(xText)
    \* ---- buildEmailBody (SpecEmail) ----
    ePc,              \* input | built
    eAppointments,    \* appointments; Date and Time are texts
    eBody,            \* buildEmailBody(eAppointments), as a sequence of characters
    \* ---- parseAppointmentSlots (SpecParse) ----
    tPc,              \* input | parsed
    tElements,        \* the .timeslot elements of htmlContent: [range, spots]
    tDate,            \* date
    tResult,          \* parseAppointmentSlots(tElements, tDate)
    \* ---- the day cells of parseAppointments (SpecCells) ----
    dPc,              \* input | parsed
    dCells,           \* the elements found: [text, classes, hasLink]
    dResult           \* the appointments appended for them

cycleVars == <<pc, cycle, today, MonthsLookahead, file, seenAppointments, nonce,
               dates, i, allAppointments, newAppointments>>
historyVars == <<fileAtStart, loadResult, saveResult, nonceResult, queried, found,
                 skipped, dateLog, callGaps, reportedBefore, ioOk>>
filterVars == <<fPc, fAppointments, fSeen, fResult, fSecond>>
storeVars == <<sPc, sList, sFile, sSaveErr, sLoaded>>
\* the variables of the specifications of single functions
windowVars == <<hPc, hNow, hMonthsAhead, hAppointments, hSeen, hResult>>
plannerVars == <<pPc, pStart, pDays, pMonths, pResult>>
monthVars == <<mPc, mInput, mResult>>
configVars == <<cPc, cInput, cResult>>
spacesVars == <<xPc, xText, xResult>>
emailVars == <<ePc, eAppointments, eBody>>
parseVars == <<tPc, tElements, tDate, tResult>>
cellsVars == <<dPc, dCells, dResult>>
\* the variables of the specifications of single functions
functionVars == <<filterVars, storeVars, windowVars, plannerVars, monthVars, configVars,
                  spacesVars, emailVars, parseVars, cellsVars>>
\* what the specification of one function leaves alone
outsideFilter == <<cycleVars, historyVars, storeVars, windowVars, plannerVars, monthVars,
                   configVars, spacesVars, emailVars, parseVars, cellsVars>>
outsideStore == <<cycleVars, historyVars, filterVars, windowVars, plannerVars, monthVars,
                  configVars, spacesVars, emailVars, parseVars, cellsVars>>
outsideWindow == <<cycleVars, historyVars, filterVars, storeVars, plannerVars, monthVars,
                   configVars, spacesVars, emailVars, parseVars, cellsVars>>
outsidePlanner == <<cycleVars, historyVars, filterVars, storeVars, windowVars, monthVars,
                    configVars, spacesVars, emailVars, parseVars, cellsVars>>
outsideMonth == <<cycleVars, historyVars, filterVars, storeVars, windowVars, plannerVars,
                  configVars, spacesVars, emailVars, parseVars, cellsVars>>
outsideConfig == <<cycleVars, historyVars, filterVars, storeVars, windowVars, plannerVars,
                   monthVars, spacesVars, emailVars, parseVars, cellsVars>>
outsideSpaces == <<cycleVars, historyVars, filterVars, storeVars, windowVars, plannerVars,
                   monthVars, configVars, emailVars, parseVars, cellsVars>>
outsideEmail == <<cycleVars, historyVars, filterVars, storeVars, windowVars, plannerVars,
                  monthVars, configVars, spacesVars, parseVars, cellsVars>>
outsideParse == <<cycleVars, historyVars, filterVars, storeVars, windowVars, plannerVars,
                  monthVars, configVars, spacesVars, emailVars, cellsVars>>
outsideCells == <<cycleVars, historyVars, filterVars, storeVars, windowVars, plannerVars,
                  monthVars, configVars, spacesVars, emailVars, parseVars>>
vars == <<cycleVars, historyVars, functionVars>>

----------------------------------------------------------------------------
(* Bounds of the model *)

\* cycles run one after the other
MaxCycles == 2
\* dates of the plan that are scanned (the plan itself has monthsAhead * 30)
MaxDays == 2
\* timeslot elements in one answer of the remote source
MaxSlots == 2
\* length of the candidate list given to the filter in SpecFilter
MaxCandidates == 3
\* length of the seen list given to the filter in SpecFilter
MaxSeen == 2
\* length of the list given to saveSeenAppointments in SpecStore
MaxStored == 2
\* length of the candidate list given to filterAppointments in SpecWindow
MaxWindowCandidates == 2
\* the largest monthsAhead given to filterAppointments in SpecWindow
MaxMonthsAhead == 1
\* the largest days given to generateDateRange in SpecPlanner
MaxRangeDays == 7
\* the largest monthsAhead given to the plan of scrapeAppointments in SpecPlanner
MaxPlanMonths == 2
\* length of the list given to buildEmailBody in SpecEmail
MaxEmailSlots == 2
\* .timeslot elements in the content given to parseAppointmentSlots in SpecParse
MaxParseSlots == 2
\* elements given to the loop over the day cells in SpecCells
MaxCells == 1

\* scraper.go: daysPerMonth
daysPerMonth == 30

Range(s) == {s[k] : k \in DOMAIN s}

Min(a, b) == IF a < b THEN a ELSE b

SeqsUpTo(S, n) == UNION {[1..k -> S] : k \in 0..n}

----------------------------------------------------------------------------
(* Appointment, src/scraper.go *)

Appointment(date, time, spaces, isAvailable) ==
    [Date |-> date, Time |-> time, Spaces |-> spaces, IsAvailable |-> isAvailable]

\* the (Date, Time) identity of a slot
Pair(a) == <<a.Date, a.Time>>

----------------------------------------------------------------------------
(* filterNewAppointments, src/filter.go *)

\* key := seen.Date + "|" + seen.Time
SeenKey(a) == a.Date \o "|" \o a.Time

\* a plausible slip: the lookup compares whole entries, capacity included
filterNewAppointments_WholeEntry(appointments, seen) ==
    IF Len(seen) = 0
    THEN appointments
    ELSE SelectSeq(appointments, LAMBDA appt : appt \notin Range(seen))

\* the filter of the HTML variant: unavailable candidates are dropped first
filterNewAppointments_AvailableOnly(appointments, seen) ==
    LET seenSet == {a.Date \o "|" \o a.Time : a \in Range(seen)}
    IN SelectSeq(appointments,
                 LAMBDA appt : appt.IsAvailable /\ (appt.Date \o "|" \o appt.Time) \notin seenSet)

\* a plausible slip: the early return for an empty seen list is taken always
filterNewAppointments_NoLookup(appointments, seen) == appointments

\* a plausible slip: new entries are pushed in front of the result
RECURSIVE filterNewAppointments_Reversed(_, _)
filterNewAppointments_Reversed(appointments, seen) ==
    IF appointments = <<>>
    THEN <<>>
    ELSE LET rest == filterNewAppointments_Reversed(Tail(appointments), seen)
         IN IF Len(seen) = 0 \/ SeenKey(Head(appointments)) \notin {SeenKey(s) : s \in Range(seen)}
            THEN rest \o <<Head(appointments)>>
            ELSE rest

filterNewAppointments(appointments, seen) ==
    IF Len(seen) = 0
    THEN appointments
    ELSE LET seenSet == {SeenKey(seen[k]) : k \in DOMAIN seen}
         IN SelectSeq(appointments, LAMBDA appt : SeenKey(appt) \notin seenSet)

----------------------------------------------------------------------------
(* The calendar behind time.Time: AddDate and Format("2006-01-02") *)

IsLeap(y) == (y % 4 = 0 /\ y % 100 # 0) \/ y % 400 = 0

DaysIn(y, m) ==
    IF m = 2 THEN (IF IsLeap(y) THEN 29 ELSE 28)
    ELSE IF m \in {4, 6, 9, 11} THEN 30 ELSE 31

Date(y, m, d) == [y |-> y, m |-> m, d |-> d]

\* startDate.AddDate(0, 0, 1), normalised
NextDay(t) ==
    IF t.d < DaysIn(t.y, t.m) THEN Date(t.y, t.m, t.d + 1)
    ELSE IF t.m < 12 THEN Date(t.y, t.m + 1, 1)
    ELSE Date(t.y + 1, 1, 1)

\* startDate.AddDate(0, 0, n) for n >= 0: the days that do not fit into the
\* month of t are carried into the months after it
RECURSIVE AddDays(_, _)
AddDays(t, n) ==
    IF n <= 0 THEN t
    ELSE IF t.d + n <= DaysIn(t.y, t.m) THEN Date(t.y, t.m, t.d + n)
    ELSE AddDays(NextDay(Date(t.y, t.m, DaysIn(t.y, t.m))), n - (DaysIn(t.y, t.m) - t.d) - 1)

Pad2(n) == IF n < 10 THEN "0" \o ToString(n) ELSE ToString(n)

\* t.Format("2006-01-02")
FormatDate(t) == ToString(t.y) \o "-" \o Pad2(t.m) \o "-" \o Pad2(t.d)

\* a plausible slip: the loop index starts at 1
generateDateRange_FromTomorrow(startDate, days) ==
    [k \in 1..days |-> FormatDate(AddDays(startDate, k))]

\* generateDateRange, src/scraper.go
generateDateRange(startDate, days) ==
    [k \in 1..days |-> FormatDate(AddDays(startDate, k - 1))]

\* daysToCheck := monthsAhead * daysPerMonth
daysToCheck(monthsAhead) == monthsAhead * daysPerMonth

\* dates := make([]string, days) panics for a negative length, and nothing
\* recovers from it: the process is over
RangePanics(days) == days < 0

\* the dates of the plan the cycles of Spec scan: the first MaxDays of them
ScannedDays(monthsAhead) == Min(daysToCheck(monthsAhead), MaxDays)

----------------------------------------------------------------------------
(* Texts: a Go string is a sequence of one-character strings *)

UpperCase == <<"A", "B", "C", "D", "E", "F", "G", "H", "I", "J", "K", "L", "M",
               "N", "O", "P", "Q", "R", "S", "T", "U", "V", "W", "X", "Y", "Z">>
LowerCase == <<"a", "b", "c", "d", "e", "f", "g", "h", "i", "j", "k", "l", "m",
               "n", "o", "p", "q", "r", "s", "t", "u", "v", "w", "x", "y", "z">>
Digits == <<"0", "1", "2", "3", "4", "5", "6", "7", "8", "9">>

LowerOf(c) ==
    IF \E k \in DOMAIN UpperCase : UpperCase[k] = c
    THEN LowerCase[CHOOSE k \in DOMAIN UpperCase : UpperCase[k] = c]
    ELSE c

UpperOf(c) ==
    IF \E k \in DOMAIN LowerCase : LowerCase[k] = c
    THEN UpperCase[CHOOSE k \in DOMAIN LowerCase : LowerCase[k] = c]
    ELSE c

\* strings.ToLower
ToLower(text) == [k \in DOMAIN text |-> LowerOf(text[k])]

\* unicode.IsSpace on the characters of the model
IsSpace(c) == c \in {" ", "\t", "\n"}

\* \d
IsDigit(c) == \E k \in DOMAIN Digits : Digits[k] = c

DigitValue(c) == (CHOOSE k \in DOMAIN Digits : Digits[k] = c) - 1

RECURSIVE TrimLeftSpace(_)
TrimLeftSpace(text) ==
    IF text # <<>> /\ IsSpace(Head(text)) THEN TrimLeftSpace(Tail(text)) ELSE text

\* strings.TrimRight(text, cutset)
RECURSIVE TrimRight(_, _)
TrimRight(text, cutset) ==
    IF text # <<>> /\ text[Len(text)] \in cutset
    THEN TrimRight(SubSeq(text, 1, Len(text) - 1), cutset)
    ELSE text

\* strings.TrimSpace
TrimSpace(text) == TrimRight(TrimLeftSpace(text), {" ", "\t", "\n"})

\* the length of the run of characters that are not spaces at the head of text
RECURSIVE WordLen(_)
WordLen(text) ==
    IF text = <<>> \/ IsSpace(Head(text)) THEN 0 ELSE 1 + WordLen(Tail(text))

\* strings.Fields
RECURSIVE Fields(_)
Fields(text) ==
    LET rest == TrimLeftSpace(text)
        n == WordLen(rest)
    IN IF rest = <<>> THEN <<>>
       ELSE <<SubSeq(rest, 1, n)>> \o Fields(SubSeq(rest, n + 1, Len(rest)))

\* the value of a run of digits
RECURSIVE DigitsValue(_)
DigitsValue(text) ==
    IF text = <<>> THEN 0
    ELSE 10 * DigitsValue(SubSeq(text, 1, Len(text) - 1)) + DigitValue(text[Len(text)])

\* strconv.Atoi: [value, ok]; an optional sign, then digits only
Atoi(text) ==
    LET signed == text # <<>> /\ Head(text) \in {"+", "-"}
        body == IF signed THEN Tail(text) ELSE text
    IN IF body # <<>> /\ \A k \in DOMAIN body : IsDigit(body[k])
       THEN [value |-> IF signed /\ Head(text) = "-" THEN 0 - DigitsValue(body)
                       ELSE DigitsValue(body),
             ok |-> TRUE]
       ELSE [value |-> 0, ok |-> FALSE]

----------------------------------------------------------------------------
(* monthNameToNumber, src/unnamed/part_000 *)

\* the cases of the switch, in the order of time.Month
monthNames ==
    <<<<"j", "a", "n", "u", "a", "r", "y">>,
      <<"f", "e", "b", "r", "u", "a", "r", "y">>,
      <<"m", "a", "r", "c", "h">>,
      <<"a", "p", "r", "i", "l">>,
      <<"m", "a", "y">>,
      <<"j", "u", "n", "e">>,
      <<"j", "u", "l", "y">>,
      <<"a", "u", "g", "u", "s", "t">>,
      <<"s", "e", "p", "t", "e", "m", "b", "e", "r">>,
      <<"o", "c", "t", "o", "b", "e", "r">>,
      <<"n", "o", "v", "e", "m", "b", "e", "r">>,
      <<"d", "e", "c", "e", "m", "b", "e", "r">>>>

\* the switch on cleanedMonthName: the month, or 0 when no case matches
MonthOf(text) ==
    IF \E k \in DOMAIN monthNames : monthNames[k] = text
    THEN CHOOSE k \in DOMAIN monthNames : monthNames[k] = text
    ELSE 0

\* the cutset of strings.TrimRight(firstWord, ",.;:")
TrailingPunctuation == {",", ".", ";", ":"}

UnknownMonth(calls) == [month |-> 1, err |-> "unknown month name", calls |-> calls]

\* monthNameToNumber: [month, err, calls], calls being the recursive calls made
RECURSIVE monthNameToNumber(_)
monthNameToNumber(monthName) ==
    LET cleanedMonthName == TrimSpace(ToLower(monthName))
        parts == Fields(cleanedMonthName)
    IN IF MonthOf(cleanedMonthName) # 0
       THEN [month |-> MonthOf(cleanedMonthName), err |-> "nil", calls |-> 0]
       ELSE IF Len(parts) > 1 /\ TrimRight(parts[1], TrailingPunctuation) # cleanedMonthName
            THEN LET r == monthNameToNumber(TrimRight(parts[1], TrailingPunctuation))
                 IN IF r.err = "nil"
                    THEN [month |-> r.month, err |-> "nil", calls |-> r.calls + 1]
                    ELSE UnknownMonth(r.calls + 1)
            ELSE UnknownMonth(0)

----------------------------------------------------------------------------
(* filterAppointments, src/unnamed/part_000 *)

\* an Appointment of the HTML variant; Month and Day are texts
HtmlAppointment(month, day, isAvailable) ==
    [Month |-> month, Day |-> day, Time |-> <<>>, IsAvailable |-> isAvailable]

\* isNewAppointment: no seen entry with the same Month and Day
isNewAppointment(appointment, seen) ==
    \A k \in DOMAIN seen :
        ~(seen[k].Month = appointment.Month
          /\ seen[k].Day = appointment.Day)

\* the day before t
PrevDay(t) ==
    IF t.d > 1 THEN Date(t.y, t.m, t.d - 1)
    ELSE IF t.m > 1 THEN Date(t.y, t.m - 1, DaysIn(t.y, t.m - 1))
    ELSE Date(t.y - 1, 12, 31)

RECURSIVE SubDays(_, _)
SubDays(t, n) == IF n <= 0 THEN t ELSE SubDays(PrevDay(t), n - 1)

\* time.Date(year, month, day, 0, 0, 0, 0, time.UTC) for a month of 1..12: a
\* day outside the month is normalised into the months around it
TimeDate(year, month, day) ==
    IF day >= 1 THEN AddDays(Date(year, month, 1), day - 1)
    ELSE SubDays(Date(year, month, 1), 1 - day)

\* the first day of the month after that of t
MonthAfter(t) == IF t.m < 12 THEN Date(t.y, t.m + 1, 1) ELSE Date(t.y + 1, 1, 1)

\* the first day of the month before that of t
MonthBefore(t) == IF t.m > 1 THEN Date(t.y, t.m - 1, 1) ELSE Date(t.y - 1, 12, 1)

\* t.AddDate(0, n, 0) for t the first day of a month
RECURSIVE AddMonths(_, _)
AddMonths(t, n) ==
    IF n = 0 THEN t
    ELSE IF n > 0 THEN AddMonths(MonthAfter(t), n - 1)
    ELSE AddMonths(MonthBefore(t), n + 1)

\* a.Before(b)
Before(a, b) ==
    \/ a.y < b.y
    \/ a.y = b.y /\ a.m < b.m
    \/ a.y = b.y /\ a.m = b.m /\ a.d < b.d

\* a plausible slip: the window ends with the first day of the last month
targetDate_SameMonth(now, monthsAhead) == AddMonths(Date(now.y, now.m, 1), monthsAhead)

\* targetDate := time.Date(currentYear, currentMonth, 1, ...).AddDate(0, monthsAhead+1, 0)
targetDate(now, monthsAhead) == AddMonths(Date(now.y, now.m, 1), monthsAhead + 1)

\* the explicit year of the month text: its last field, when there is more
\* than one, when it is a number in [currentYear, currentYear+5); 0 otherwise
parsedExplicitYear(month, currentYear) ==
    LET monthStrParts == Fields(month)
        pYear == IF Len(monthStrParts) > 1
                 THEN Atoi(monthStrParts[Len(monthStrParts)])
                 ELSE [value |-> 0, ok |-> FALSE]
    IN IF pYear.ok /\ pYear.value >= currentYear /\ pYear.value < currentYear + 5
       THEN pYear.value
       ELSE 0

\* the year of the appointment: the explicit one, else the next year for a
\* month before the current one, else the current year
apptYear(month, monthNum, now) ==
    IF parsedExplicitYear(month, now.y) > 0 THEN parsedExplicitYear(month, now.y)
    ELSE IF monthNum < now.m THEN now.y + 1
    ELSE now.y

\* the day and the month of the appointment convert
Converts(appt) == Atoi(appt.Day).ok /\ monthNameToNumber(appt.Month).err = "nil"

\* apptDate := time.Date(year, monthNum, day, ...)
apptDate(appt, now) ==
    LET monthNum == monthNameToNumber(appt.Month).month
    IN TimeDate(apptYear(appt.Month, monthNum, now), monthNum, Atoi(appt.Day).value)

\* (apptDate.Equal(today) || apptDate.After(today)) && apptDate.Before(targetDate)
InWindow(d, now, monthsAhead) ==
    /\ (d = now \/ Before(now, d))
    /\ Before(d, targetDate(now, monthsAhead))

\* filterAppointments; now is time.Now()
filterAppointments(appointments, seen, monthsAhead, now) ==
    SelectSeq(appointments,
              LAMBDA appt : /\ appt.IsAvailable
                            /\ isNewAppointment(appt, seen)
                            /\ Converts(appt)
                            /\ InWindow(apptDate(appt, now), now, monthsAhead))

----------------------------------------------------------------------------
(* loadConfig, src/unnamed/part_004 and src/melanzana-scraper/config.go *)

\* Four of the eight options stand for all: MonthsLookahead (like SMTPPort),
\* DataFile (like SMTPServer, SMTPUsername, FromEmail), SMTPPassword and
\* ToEmails. An address is a text, ToEmails a sequence of texts.

\* the config the function starts from
DefaultConfig ==
    [MonthsLookahead |-> 3, SMTPPassword |-> "pass", ToEmails |-> <<<<"r">>>>,
     DataFile |-> "seen_appointments.json"]

\* AppConfig{}
ZeroConfig == [MonthsLookahead |-> 0, SMTPPassword |-> "", ToEmails |-> <<>>, DataFile |-> ""]

\* strings.Join(elems, ",")
RECURSIVE JoinComma(_)
JoinComma(elems) ==
    IF elems = <<>> THEN <<>>
    ELSE IF Len(elems) = 1 THEN elems[1]
    ELSE elems[1] \o <<",">> \o JoinComma(Tail(elems))

\* the length of the run of characters that are no comma at the head of text
RECURSIVE UntilComma(_)
UntilComma(text) ==
    IF text = <<>> \/ Head(text) = "," THEN 0 ELSE 1 + UntilComma(Tail(text))

\* strings.Split(text, ","): one element more than there are commas
RECURSIVE SplitComma(_)
SplitComma(text) ==
    LET n == UntilComma(text)
    IN IF n = Len(text) THEN <<text>>
       ELSE <<SubSeq(text, 1, n)>> \o SplitComma(SubSeq(text, n + 2, Len(text)))

\* the defaults the flags are defined with
FlagDefaults ==
    [months |-> DefaultConfig.MonthsLookahead, smtpPass |-> "",
     toEmails |-> JoinComma(DefaultConfig.ToEmails), dataFile |-> DefaultConfig.DataFile]

\* flag.Parse: the value of a flag variable is the value passed, or the default
FlagValue(flag, default) == IF flag.set THEN flag.value ELSE default

\* json.Unmarshal(data, &config): the fields the file sets are overwritten
UnmarshalConfig(config, fields) ==
    [MonthsLookahead |-> IF fields.monthsLookahead.set THEN fields.monthsLookahead.value
                         ELSE config.MonthsLookahead,
     SMTPPassword |-> IF fields.smtpPassword.set THEN fields.smtpPassword.value
                      ELSE config.SMTPPassword,
     ToEmails |-> IF fields.toEmails.set THEN fields.toEmails.value ELSE config.ToEmails,
     DataFile |-> IF fields.dataFile.set THEN fields.dataFile.value ELSE config.DataFile]

\* the config file step of both versions: [config, err]
loadConfigFile(config, configFile) ==
    CASE configFile.kind = "none"       -> [config |-> config, err |-> "nil"]
      [] configFile.kind = "unreadable" -> [config |-> ZeroConfig, err |-> "failed to read config file"]
      [] configFile.kind = "malformed"  -> [config |-> ZeroConfig, err |-> "failed to parse config file"]
      [] OTHER -> [config |-> UnmarshalConfig(config, configFile.fields), err |-> "nil"]

\* loadConfig of src/unnamed/part_004: flag.Visit calls the function for the
\* flags that were passed only
loadConfig(flags, configFile) ==
    LET loaded == loadConfigFile(DefaultConfig, configFile)
        config == loaded.config
    IN IF loaded.err # "nil" THEN loaded
       ELSE [config |->
                [MonthsLookahead |-> IF flags.months.set THEN flags.months.value
                                     ELSE config.MonthsLookahead,
                 SMTPPassword |-> IF flags.smtpPass.set THEN flags.smtpPass.value
                                  ELSE config.SMTPPassword,
                 ToEmails |-> IF flags.toEmails.set THEN SplitComma(flags.toEmails.value)
                              ELSE config.ToEmails,
                 DataFile |-> IF flags.dataFile.set THEN flags.dataFile.value
                              ELSE config.DataFile],
             err |-> "nil"]

\* loadConfig of src/melanzana-scraper/config.go: the values of the flag
\* variables are assigned whether the flags were passed or not
loadConfigScraper(flags, configFile) ==
    LET loaded == loadConfigFile(DefaultConfig, configFile)
        config == loaded.config
        smtpPassFlag == FlagValue(flags.smtpPass, FlagDefaults.smtpPass)
        toEmailsFlag == FlagValue(flags.toEmails, FlagDefaults.toEmails)
    IN IF loaded.err # "nil" THEN loaded
       ELSE [config |->
                [MonthsLookahead |-> FlagValue(flags.months, FlagDefaults.months),
                 SMTPPassword |-> IF smtpPassFlag # "" THEN smtpPassFlag ELSE config.SMTPPassword,
                 ToEmails |-> IF toEmailsFlag # <<>> THEN SplitComma(toEmailsFlag)
                              ELSE config.ToEmails,
                 DataFile |-> FlagValue(flags.dataFile, FlagDefaults.dataFile)],
             err |-> "nil"]

----------------------------------------------------------------------------
(* The remote source: the booking page and the availability endpoint *)

\* the token the booking page carries
Tokens == {"n1"}

\* what http.Get(bookingURL) can bring back
BookingPages ==
    {[kind |-> k, nonce |-> ""] : k \in {"network", "status", "nononce"}}
    \cup {[kind |-> "page", nonce |-> t] : t \in Tokens}

\* extractNonce, src/scraper.go: [nonce, err]
extractNonce(page) ==
    CASE page.kind = "network" -> [nonce |-> "", err |-> "failed to fetch booking page"]
      [] page.kind = "status"  -> [nonce |-> "", err |-> "booking page returned status"]
      [] page.kind = "nononce" -> [nonce |-> "", err |-> "nonce not found in booking page"]
      [] OTHER                 -> [nonce |-> page.nonce, err |-> "nil"]

\* the text of a .timeslot-range element and of a .spots-available element;
\* the empty text stands for an element that is missing
TimeRange == <<"1", "0", ":", "0", "0", " ", "a", "m", " ", "-", " ", "1", "1", ":", "0", "0", " ", "a", "m">>
TimeslotElements ==
    {[range |-> TimeRange, spots |-> <<"1", " ", "s", "p", "a", "c", "e", " ", "a", "v", "a", "i", "l", "a", "b", "l", "e">>],
     [range |-> TimeRange, spots |-> <<"N", "o", " ", "s", "p", "a", "c", "e", "s", " ", "a", "v", "a", "i", "l", "a", "b", "l", "e">>]}

\* the texts of the elements given to parseAppointmentSlots alone (SpecParse)
ParseRanges ==
    {TimeRange,
     <<"2", ":", "0", "0", " ", "p", "m", " ", "-", " ", "3", ":", "0", "0", " ", "p", "m">>,
     <<" ", "9", ":", "3", "0", " ", "a", "m", "-", "1", "0", ":", "1", "5", " ", " ", "p", "m", "\n">>,
     <<"f", "r", "o", "m", " ", "1", "1", "0", ":", "0", "0", " ", "a", "m", " ", "-", " ", "1", ":", "0", "0", " ", "p", "m", " ", "o", "n">>,
     <<"1", "0", ":", "0", "0", "a", "m", " ", "-", " ", "1", "1", ":", "0", "0", " ", "a", "m">>,
     <<"1", "0", ":", "0", "0", " ", "a", "m", " ", "t", "o", " ", "1", "1", ":", "0", "0", " ", "a", "m">>,
     <<"I", "n", "v", "a", "l", "i", "d", " ", "t", "i", "m", "e", " ", "f", "o", "r", "m", "a", "t">>,
     <<>>}
ParseSpots ==
    {<<"2", " ", "s", "p", "a", "c", "e", "s", " ", "a", "v", "a", "i", "l", "a", "b", "l", "e">>,
     <<"1", " ", "s", "p", "a", "c", "e", " ", "a", "v", "a", "i", "l", "a", "b", "l", "e">>,
     <<"\n", " ", "1", "2", " ", "s", "p", "a", "c", "e", "s", " ", "a", "v", "a", "i", "l", "a", "b", "l", "e", " ">>,
     <<"0", " ", "s", "p", "a", "c", "e", "s", " ", "a", "v", "a", "i", "l", "a", "b", "l", "e">>,
     <<"N", "o", " ", "s", "p", "a", "c", "e", "s", " ", "a", "v", "a", "i", "l", "a", "b", "l", "e">>,
     <<>>}
ParseElements == [range : ParseRanges, spots : ParseSpots]

\* what http.PostForm(ajaxURL, formData) can bring back
Answers ==
    {[kind |-> k, slots |-> <<>>] : k \in {"network", "status", "read", "nonce", "none"}}
    \cup {[kind |-> "html", slots |-> s] : s \in SeqsUpTo(TimeslotElements, MaxSlots) \ {<<>>}}

\* text without its first n characters
Drop(text, n) == SubSeq(text, n + 1, Len(text))

\* text starts with the literal
HasPrefix(text, literal) ==
    Len(text) >= Len(literal) /\ SubSeq(text, 1, Len(literal)) = literal

\* \d+ at the head of text: the length of the run of digits
RECURSIVE DigitRun(_)
DigitRun(text) ==
    IF text = <<>> \/ ~IsDigit(Head(text)) THEN 0 ELSE 1 + DigitRun(Tail(text))

\* \s+ at the head of text: the length of the run of spaces
RECURSIVE SpaceRun(_)
SpaceRun(text) ==
    IF text = <<>> \/ ~IsSpace(Head(text)) THEN 0 ELSE 1 + SpaceRun(Tail(text))

\* \d{n} at the head of text
DigitsAt(text, n) == Len(text) >= n /\ \A k \in 1..n : IsDigit(text[k])

\* \d{hour}:\d{2} at the head of text, then gap space characters (the run of
\* \s+) and [ap]m: the length matched, 0 for none
clockEnd(text, hour, gap) ==
    IF /\ DigitsAt(text, hour)
       /\ Len(text) >= hour + 3
       /\ text[hour + 1] = ":"
       /\ IsDigit(text[hour + 2])
       /\ IsDigit(text[hour + 3])
       /\ gap > 0
       /\ \/ HasPrefix(Drop(text, hour + 3 + gap), <<"a", "m">>)
          \/ HasPrefix(Drop(text, hour + 3 + gap), <<"p", "m">>)
    THEN hour + 3 + gap + 2
    ELSE 0

\* \d{hour}:\d{2}\s+[ap]m at the head of text, the hour having that many
\* digits: the length matched, 0 for none
clockAtWith(text, hour) == clockEnd(text, hour, SpaceRun(Drop(text, hour + 3)))

\* the first alternative if it matched, else the second
FirstMatch(first, second) == IF first > 0 THEN first ELSE second

\* \d{1,2}:\d{2}\s+[ap]m at the head of text: two digits are tried first
clockAt(text) == FirstMatch(clockAtWith(text, 2), clockAtWith(text, 1))

\* \s* at the head of text: the text after it
SkipSpaces(text) == Drop(text, SpaceRun(text))

\* the second capture group at the head of rest, after the first one
secondGroup(firstGroup, rest, second) ==
    IF second > 0 THEN <<firstGroup, SubSeq(rest, 1, second)>> ELSE <<>>

\* \s*[-]\s* at the head of rest, then the second capture group
afterFirstGroup(firstGroup, atDash) ==
    IF HasPrefix(atDash, <<"-">>)
    THEN secondGroup(firstGroup, SkipSpaces(Drop(atDash, 1)),
                     clockAt(SkipSpaces(Drop(atDash, 1))))
    ELSE <<>>

\* the capture groups of a match at the head of text whose first group has
\* the length first
groupsAt(text, first) ==
    IF first > 0
    THEN afterFirstGroup(SubSeq(text, 1, first), SkipSpaces(Drop(text, first)))
    ELSE <<>>

\* timePattern at the head of text: the two capture groups, or nothing
timePatternAt(text) == groupsAt(text, clockAt(text))

\* timePattern.FindStringSubmatch(text): the two capture groups of the
\* leftmost match, or nothing
RECURSIVE timePatternMatch(_)

\* the match at the head of the text if there is one, else the leftmost one
\* of the text after its first character
matchOrLater(here, rest) == IF here # <<>> THEN here ELSE timePatternMatch(rest)

timePatternMatch(text) ==
    IF text = <<>> THEN <<>> ELSE matchOrLater(timePatternAt(text), Tail(text))

\* a Go string of the model as one string
RECURSIVE Text(_)
Text(chars) == IF chars = <<>> THEN "" ELSE Head(chars) \o Text(Tail(chars))

\* a plausible slip: the pattern has no `s?`, the plural does not match
spaceWord_SingularOnly(text) == IF HasPrefix(text, <<"s", "p", "a", "c", "e">>) THEN 5 ELSE 0

\* space followed by s? at the head of text: the length matched, 0 for none
spaceWord(text) ==
    IF ~HasPrefix(text, <<"s", "p", "a", "c", "e">>) THEN 0
    ELSE IF HasPrefix(Drop(text, 5), <<"s">>) THEN 6 ELSE 5

\* spacePattern, (\d+)\s+spaces?\s+available, matched at the head of text:
\* the capture group, or the empty text when there is no match there
spacePatternAt(text) ==
    LET digits == DigitRun(text)
        afterDigits == Drop(text, digits)
        afterGap == Drop(afterDigits, SpaceRun(afterDigits))
        afterWord == Drop(afterGap, spaceWord(afterGap))
        afterGap2 == Drop(afterWord, SpaceRun(afterWord))
    IN IF /\ digits > 0
          /\ SpaceRun(afterDigits) > 0
          /\ spaceWord(afterGap) > 0
          /\ SpaceRun(afterWord) > 0
          /\ HasPrefix(afterGap2, <<"a", "v", "a", "i", "l", "a", "b", "l", "e">>)
       THEN SubSeq(text, 1, digits)
       ELSE <<>>

\* spacePattern.FindStringSubmatch(text)[1]: the capture group of the
\* leftmost match, or the empty text when nothing matches
RECURSIVE spacePatternFind(_)
spacePatternFind(text) ==
    IF text = <<>> THEN <<>>
    ELSE IF spacePatternAt(text) # <<>> THEN spacePatternAt(text)
    ELSE spacePatternFind(Tail(text))

\* extractSpaces, src/scraper.go
extractSpaces(text) ==
    LET spaceMatch == spacePatternFind(text)
    IN IF spaceMatch # <<>> /\ Atoi(spaceMatch).ok THEN Atoi(spaceMatch).value ELSE 0

\* if len(timeMatch) < 3 { return }; timeSlot := fmt.Sprintf("%s - %s",
\* timeMatch[1], timeMatch[2]): no time slot, or one
formatTimeSlot(timeMatch) ==
    IF Len(timeMatch) < 2 THEN <<>>
    ELSE <<Text(timeMatch[1]) \o " - " \o Text(timeMatch[2])>>

\* timeText := strings.TrimSpace(...); timeMatch :=
\* timePattern.FindStringSubmatch(timeText), and the time slot of the match
timeSlotOf(text) == formatTimeSlot(timePatternMatch(TrimSpace(text)))

\* spacesText := strings.TrimSpace(...); spaces := extractSpaces(spacesText)
spacesOf(text) == extractSpaces(TrimSpace(text))

\* timeSlotOf and spacesOf for the texts of the model, computed once
TimeslotTimes == {<<text, timeSlotOf(text)>> : text \in ParseRanges}
TimeslotSpaces == {<<text, spacesOf(text)>> : text \in ParseSpots}

\* the entry of a text in one of the two tables
Computed(table, text) == (CHOOSE entry \in table : entry[1] = text)[2]

\* a plausible slip: a slot is available when its element has an availability text
parseTimeslot_AvailableByText(e, date) ==
    LET timeSlot == Computed(TimeslotTimes, e.range)
    IN IF timeSlot = <<>> THEN <<>>
       ELSE <<Appointment(date, timeSlot[1], Computed(TimeslotSpaces, e.spots), e.spots # <<>>)>>

\* the body of the .timeslot callback of parseAppointmentSlots: no slot or one
parseTimeslot(e, date) ==
    LET timeSlot == Computed(TimeslotTimes, e.range)
        spaces == Computed(TimeslotSpaces, e.spots)
    IN IF timeSlot = <<>> THEN <<>>
       ELSE <<Appointment(date, timeSlot[1], spaces, spaces > 0)>>

\* parseAppointmentSlots, src/scraper.go
RECURSIVE parseAppointmentSlots(_, _)
parseAppointmentSlots(slots, date) ==
    IF slots = <<>> THEN <<>>
    ELSE parseTimeslot(Head(slots), date) \o parseAppointmentSlots(Tail(slots), date)

\* checkDateAvailability, src/scraper.go: [appointments, err]
checkDateAvailability(date, token, answer) ==
    CASE answer.kind = "network" -> [appointments |-> <<>>, err |-> "API request failed"]
      [] answer.kind = "status"  -> [appointments |-> <<>>, err |-> "API returned status"]
      [] answer.kind = "read"    -> [appointments |-> <<>>, err |-> "failed to read API response"]
      [] answer.kind = "nonce"   -> [appointments |-> <<>>, err |-> "invalid nonce"]
      [] answer.kind = "none"    -> [appointments |-> <<>>, err |-> "nil"]
      [] OTHER -> [appointments |-> parseAppointmentSlots(answer.slots, date), err |-> "nil"]

\* strings.Contains(err.Error(), "invalid nonce")
IsInvalidNonce(err) == err = "invalid nonce"

\* a plausible slip: every slot of the answer is added
OnlyAvailable_Everything(appointments) == appointments

\* scrapeAppointments: "Only add available appointments"
OnlyAvailable(appointments) == SelectSeq(appointments, LAMBDA appt : appt.IsAvailable)

----------------------------------------------------------------------------
(* The seen store, src/storage.go *)

\* a plausible slip: a field that is not exported is not written, and is read
\* back as the zero value
ToJSON_AvailabilityUnexported(a) ==
    [date |-> a.Date, time |-> a.Time, spaces |-> a.Spaces, isAvailable |-> FALSE]

\* json.MarshalIndent of one Appointment, by its json tags
ToJSON(a) == [date |-> a.Date, time |-> a.Time, spaces |-> a.Spaces, isAvailable |-> a.IsAvailable]

\* json.Unmarshal of one object into an Appointment
FromJSON(o) == Appointment(o.date, o.time, o.spaces, o.isAvailable)

MissingFile == [kind |-> "missing", data |-> <<>>]
EmptyFile == [kind |-> "empty", data |-> <<>>]
MalformedFile == [kind |-> "malformed", data |-> <<>>]
ArrayFile(appointments) ==
    [kind |-> "array", data |-> [k \in DOMAIN appointments |-> ToJSON(appointments[k])]]

\* the slots a store file holds
FileSlots(f) == IF f.kind = "array" THEN {FromJSON(o) : o \in Range(f.data)} ELSE {}

\* a plausible slip: no case for a file of zero bytes, which json.Unmarshal rejects
loadSeenAppointments_NoEmptyCase(f, readFails) ==
    CASE f.kind = "missing" -> [appointments |-> <<>>, err |-> "nil"]
      [] readFails          -> [appointments |-> <<>>, err |-> "failed to read"]
      [] f.kind = "array"   -> [appointments |-> [k \in DOMAIN f.data |->
                                    Appointment(f.data[k].date, f.data[k].time,
                                                f.data[k].spaces, f.data[k].isAvailable)],
                                err |-> "nil"]
      [] OTHER              -> [appointments |-> <<>>, err |-> "failed to unmarshal"]

\* loadSeenAppointments, src/storage.go: [appointments, err]; readFails is
\* os.ReadFile failing on a file that exists
loadSeenAppointments(f, readFails) ==
    CASE f.kind = "missing"   -> [appointments |-> <<>>, err |-> "nil"]
      [] readFails            -> [appointments |-> <<>>, err |-> "failed to read"]
      [] f.kind = "empty"     -> [appointments |-> <<>>, err |-> "nil"]
      [] f.kind = "malformed" -> [appointments |-> <<>>, err |-> "failed to unmarshal"]
      [] OTHER -> [appointments |-> [k \in DOMAIN f.data |-> FromJSON(f.data[k])], err |-> "nil"]

\* how os.WriteFile can end: written; the open failed; the file was truncated
\* and nothing written; the file was truncated and written in part
WriteOutcomes == {"ok", "openfailed", "truncated", "partial"}

\* saveSeenAppointments, src/storage.go: [file, err]
saveSeenAppointments(appointments, f, outcome) ==
    CASE outcome = "ok"         -> [file |-> ArrayFile(appointments), err |-> "nil"]
      [] outcome = "openfailed" -> [file |-> f, err |-> "failed to write"]
      [] outcome = "truncated"  -> [file |-> EmptyFile, err |-> "failed to write"]
      [] OTHER                  -> [file |-> MalformedFile, err |-> "failed to write"]

----------------------------------------------------------------------------
(* scrapeAppointments, src/scraper.go: the decisions of the loop *)

\* a plausible slip: a failed token extraction is logged and the scan goes on
scrapeStart_IgnoreError(err, plan) == IF plan = <<>> THEN "filter" ELSE "query"

\* where the cycle goes after the initial extractNonce: scrapeAppointments
\* returns the error and runScrapingCycle returns (idle), or the loop starts
scrapeStart(err, plan) ==
    IF err # "nil" THEN "idle"
    ELSE IF plan = <<>> THEN "filter" ELSE "query"

\* the end of the loop body: the next date of the plan, or the end of the scan
NextDate(k, n) == [pc |-> IF k + 1 > n THEN "filter" ELSE "query", i |-> k + 1]

\* if i > 0 { time.Sleep(requestDelay) }, for the 1-based index k
SleepBefore(k) == k > 1

\* a plausible slip: break instead of continue
Continue_Break(k, n) == [pc |-> "filter", i |-> k + 1]

\* `continue` after a logged error: the next date of the plan, or the end of the scan
Continue(k, n) == NextDate(k, n)

\* after the first query of a date
afterFirstQuery(err) ==
    IF err = "nil" THEN "collect"
    ELSE IF IsInvalidNonce(err) THEN "refresh" ELSE "skip"

\* after the re-fetch of the token
afterRefresh(err) == IF err # "nil" THEN "skip" ELSE "retry"

\* a plausible slip: a second rejection refreshes the token again
afterRetry_Again(err) ==
    IF err = "nil" THEN "collect"
    ELSE IF IsInvalidNonce(err) THEN "refresh" ELSE "skip"

\* after the second query of a date
afterRetry(err) == IF err # "nil" THEN "skip" ELSE "collect"

----------------------------------------------------------------------------
(* runScrapingCycle, src/main.go: the decisions of the cycle *)

\* the seen list the cycle goes on with after loadSeenAppointments
SeenAfterLoad(r) == IF r.err # "nil" THEN <<>> ELSE r.appointments

\* where the cycle goes after loadSeenAppointments: an error is logged only
AfterLoad(r) == "nonce"

\* a plausible slip: the store is saved in the branch that reports new slots
StoreAfterReport_SavedEarly(f, seen, new) == IF Len(new) > 0 THEN ArrayFile(seen) ELSE f

\* the store file after the report and the append: neither touches it
StoreAfterReport(f, seen, new) == f

\* a plausible slip: the new slots are reported and not recorded
MergeSeen_Forgotten(seen, new) == seen

\* seenAppointments = append(seenAppointments, newAppointments...)
MergeSeen(seen, new) == IF Len(new) > 0 THEN seen \o new ELSE seen

----------------------------------------------------------------------------
(* buildEmailBody, src/main.go *)

\* strconv's decimal digits of n >= 0
RECURSIVE DecimalDigits(_)
DecimalDigits(n) ==
    IF n < 10 THEN <<Digits[n + 1]>>
    ELSE DecimalDigits(n \div 10) \o <<Digits[(n % 10) + 1]>>

\* the verb %d of fmt
FormatInt(n) == IF n < 0 THEN <<"-">> \o DecimalDigits(0 - n) ELSE DecimalDigits(n)

\* body.WriteString("New Melanzana appointments found:\n\n")
EmailHeader == <<"N", "e", "w", " ", "M", "e", "l", "a", "n", "z", "a", "n", "a", " ", "a", "p", "p", "o", "i", "n", "t", "m", "e", "n", "t", "s", " ", "f", "o", "u", "n", "d", ":", "\n", "\n">>

\* body.WriteString("\nBook at: https://melanzana.com/book-an-appointment")
EmailFooter == <<"\n", "B", "o", "o", "k", " ", "a", "t", ":", " ", "h", "t", "t", "p", "s", ":", "/", "/", "m", "e", "l", "a", "n", "z", "a", "n", "a", ".", "c", "o", "m", "/", "b", "o", "o", "k", "-", "a", "n", "-", "a", "p", "p", "o", "i", "n", "t", "m", "e", "n", "t">>

\* fmt.Fprintf(&body, "- %s at %s (%d spaces available)\n", appt.Date, appt.Time, appt.Spaces)
EmailLine(appt) ==
    <<"-", " ">> \o appt.Date \o <<" ", "a", "t", " ">> \o appt.Time \o <<" ", "(">>
        \o FormatInt(appt.Spaces)
        \o <<" ", "s", "p", "a", "c", "e", "s", " ", "a", "v", "a", "i", "l", "a", "b", "l", "e", ")", "\n">>

\* a plausible slip: the lines are put in front of one another
RECURSIVE EmailLines_Reversed(_)
EmailLines_Reversed(appointments) ==
    IF appointments = <<>> THEN <<>>
    ELSE EmailLines_Reversed(Tail(appointments)) \o EmailLine(Head(appointments))

\* for _, appt := range appointments { fmt.Fprintf(...) }
RECURSIVE EmailLines(_)
EmailLines(appointments) ==
    IF appointments = <<>> THEN <<>>
    ELSE EmailLine(Head(appointments)) \o EmailLines(Tail(appointments))

\* buildEmailBody, src/main.go
buildEmailBody(appointments) == EmailHeader \o EmailLines(appointments) \o EmailFooter

----------------------------------------------------------------------------
(* parseAppointments, src/melanzana-scraper/README.md: the day cells *)

\* s.HasClass(name)
HasClass(cell, name) == name \in cell.classes

\* a plausible slip: the classes that mark a cell as taken are looked at first
isAvailable_TakenFirst(cell) ==
    IF \E name \in {"booked", "unavailable", "disabled", "past-day", "grey", "gray", "red"} :
           HasClass(cell, name)
    THEN FALSE
    ELSE IF HasClass(cell, "available") \/ HasClass(cell, "active") THEN TRUE
    ELSE cell.hasLink

\* the if chain that sets isAvailable
isAvailable(cell) ==
    IF HasClass(cell, "available") \/ HasClass(cell, "active") THEN TRUE
    ELSE IF \/ HasClass(cell, "booked") \/ HasClass(cell, "unavailable")
            \/ HasClass(cell, "disabled") \/ HasClass(cell, "past-day")
            \/ HasClass(cell, "grey") \/ HasClass(cell, "gray") \/ HasClass(cell, "red")
         THEN FALSE
    ELSE IF cell.hasLink THEN TRUE
    ELSE FALSE

\* the text of the element is a number of one or two characters
IsDayText(dayText) == Atoi(dayText).ok /\ Len(dayText) > 0 /\ Len(dayText) <= 2

\* the callback of Each for one element: no appointment or one
dayCell(cell, currentMonth) ==
    LET dayText == TrimSpace(cell.text)
    IN IF IsDayText(dayText)
       THEN <<[Month |-> currentMonth, Day |-> dayText, Time |-> <<>>,
               IsAvailable |-> isAvailable(cell)]>>
       ELSE <<>>

\* doc.Find(...).Find("td, div").Each(...)
RECURSIVE dayCells(_, _)
dayCells(cells, currentMonth) ==
    IF cells = <<>> THEN <<>>
    ELSE dayCell(Head(cells), currentMonth) \o dayCells(Tail(cells), currentMonth)

----------------------------------------------------------------------------
(* Spec: sequential cycles *)

\* time.Now() of the runs
StartDates == {Date(2024, 2, 28)}

SeenOld == Appointment("2024-01-15", "10:00 am - 11:00 am", 1, TRUE)
SeenFirst == Appointment("2024-02-28", "10:00 am - 11:00 am", 3, TRUE)

\* the store file before the first cycle
InitialFiles ==
    {MissingFile, EmptyFile, MalformedFile, ArrayFile(<<SeenOld, SeenFirst>>)}

\* no call made yet for a date
NoDateLog == [date |-> "", queries |-> 0, refetches |-> 0, rejected |-> FALSE,
              refreshed |-> FALSE, retried |-> ""]

\* no remote call made yet
NoCalls == [last |-> "none", undelayed |-> {}]

\* a remote call of the given kind is issued, after a delay or at once
CallIssued(gaps, kind, slept) ==
    [last |-> kind,
     undelayed |-> IF slept \/ gaps.last = "none"
                   THEN {}
                   ELSE {<<gaps.last, kind>>}]

FilterOff ==
    /\ fPc = "off"
    /\ fAppointments = <<>>
    /\ fSeen = <<>>
    /\ fResult = <<>>
    /\ fSecond = <<>>

StoreOff ==
    /\ sPc = "off"
    /\ sList = <<>>
    /\ sFile = MissingFile
    /\ sSaveErr = ""
    /\ sLoaded = [appointments |-> <<>>, err |-> ""]

WindowOff ==
    /\ hPc = "off"
    /\ hNow = Date(2024, 1, 15)
    /\ hMonthsAhead = 0
    /\ hAppointments = <<>>
    /\ hSeen = <<>>
    /\ hResult = <<>>

PlannerOff ==
    /\ pPc = "off"
    /\ pStart = Date(2024, 5, 15)
    /\ pDays = 0
    /\ pMonths = 0
    /\ pResult = <<>>

MonthOff ==
    /\ mPc = "off"
    /\ mInput = <<>>
    /\ mResult = [month |-> 1, err |-> "", calls |-> 0]

ConfigOff ==
    /\ cPc = "off"
    /\ cInput = <<>>
    /\ cResult = <<>>

SpacesOff ==
    /\ xPc = "off"
    /\ xText = <<>>
    /\ xResult = 0

EmailOff ==
    /\ ePc = "off"
    /\ eAppointments = <<>>
    /\ eBody = <<>>

ParseOff ==
    /\ tPc = "off"
    /\ tElements = <<>>
    /\ tDate = ""
    /\ tResult = <<>>

CellsOff ==
    /\ dPc = "off"
    /\ dCells = <<>>
    /\ dResult = <<>>

Init ==
    /\ pc = "idle"
    /\ cycle = 0
    /\ today \in StartDates
    /\ MonthsLookahead \in {-1, 0, 1}
    /\ file \in InitialFiles
    /\ seenAppointments = <<>>
    /\ nonce = ""
    /\ dates = <<>>
    /\ i = 0
    /\ allAppointments = <<>>
    /\ newAppointments = <<>>
    /\ fileAtStart = file
    /\ loadResult = "none"
    /\ saveResult = "none"
    /\ nonceResult = "none"
    /\ queried = {}
    /\ found = {}
    /\ skipped = {}
    /\ dateLog = NoDateLog
    /\ callGaps = NoCalls
    /\ reportedBefore = {}
    /\ ioOk = TRUE
    /\ FilterOff
    /\ StoreOff
    /\ WindowOff
    /\ PlannerOff
    /\ MonthOff
    /\ ConfigOff
    /\ SpacesOff
    /\ EmailOff
    /\ ParseOff
    /\ CellsOff

\* the locals of scrapeAppointments, and what was observed of its calls
ScanCleared ==
    /\ nonce' = ""
    /\ dates' = <<>>
    /\ i' = 0
    /\ queried' = {}
    /\ found' = {}
    /\ skipped' = {}
    /\ dateLog' = NoDateLog
    /\ callGaps' = NoCalls

\* the process is started again (main), after the cycle before it has
\* returned or the process has crashed: a new cycle
StartCycle ==
    /\ pc \in {"idle", "crashed"}
    /\ cycle < MaxCycles
    /\ cycle' = cycle + 1
    /\ pc' = "load"
    /\ seenAppointments' = <<>>
    /\ allAppointments' = <<>>
    /\ newAppointments' = <<>>
    /\ ScanCleared
    /\ fileAtStart' = file
    /\ loadResult' = "none"
    /\ saveResult' = "none"
    /\ nonceResult' = "none"
    /\ reportedBefore' = reportedBefore \cup {Pair(a) : a \in Range(newAppointments)}
    /\ UNCHANGED <<today, MonthsLookahead, file, ioOk, functionVars>>

\* main.go: seenAppointments, err := loadSeenAppointments(config.DataFile)
LoadSeen ==
    /\ pc = "load"
    /\ \E readFails \in BOOLEAN :
         LET r == loadSeenAppointments(file, readFails)
         IN /\ seenAppointments' = SeenAfterLoad(r)
            /\ pc' = AfterLoad(r)
            /\ loadResult' = CASE r.err = "nil" -> "ok"
                               [] r.err = "failed to unmarshal" -> "corrupt"
                               [] OTHER -> "readerr"
            /\ ioOk' = (ioOk /\ r.err = "nil")
    /\ UNCHANGED <<cycle, today, MonthsLookahead, file, nonce, dates, i, allAppointments,
                   newAppointments, fileAtStart, saveResult, nonceResult,
                   queried, found, skipped, dateLog, callGaps, reportedBefore, functionVars>>

\* scraper.go: nonce, err := extractNonce() at the head of scrapeAppointments,
\* then the plan, whose allocation panics for a negative number of days
InitialNonce ==
    /\ pc = "nonce"
    /\ \E page \in BookingPages :
         LET r == extractNonce(page)
             plan == generateDateRange(today, ScannedDays(MonthsLookahead))
             next == IF r.err = "nil" /\ RangePanics(daysToCheck(MonthsLookahead))
                     THEN "crashed"
                     ELSE scrapeStart(r.err, plan)
         IN /\ callGaps' = CallIssued(callGaps, "nonce", FALSE)
            /\ nonceResult' = IF page.kind = "page" THEN "ok" ELSE "failed"
            /\ pc' = next
            /\ nonce' = IF r.err # "nil" THEN nonce ELSE r.nonce
            /\ dates' = IF next \in {"idle", "crashed"} THEN dates ELSE plan
            /\ i' = IF next \in {"idle", "crashed"} THEN i ELSE 1
    /\ UNCHANGED <<cycle, today, MonthsLookahead, file, seenAppointments, allAppointments,
                   newAppointments, fileAtStart, loadResult, saveResult,
                   queried, found, skipped, dateLog, reportedBefore, ioOk, functionVars>>

\* the loop body reaches its end: the available slots of the answer are kept
Collect(appointments) ==
    /\ allAppointments' = allAppointments \o OnlyAvailable(appointments)
    /\ found' = found \cup Range(appointments)
    /\ pc' = NextDate(i, Len(dates)).pc
    /\ i' = NextDate(i, Len(dates)).i
    /\ UNCHANGED skipped

\* the loop body is left by `continue`
Skip ==
    /\ pc' = Continue(i, Len(dates)).pc
    /\ i' = Continue(i, Len(dates)).i
    /\ skipped' = skipped \cup {dates[i]}
    /\ UNCHANGED <<allAppointments, found>>

\* the loop body goes on with the same date
Goto(where) ==
    /\ pc' = where
    /\ UNCHANGED <<i, allAppointments, found, skipped>>

\* scraper.go: appointments, err := checkDateAvailability(date, nonce)
QueryDate ==
    /\ pc = "query"
    /\ \E answer \in Answers :
         LET r == checkDateAvailability(dates[i], nonce, answer)
             then == afterFirstQuery(r.err)
         IN /\ callGaps' = CallIssued(callGaps, "query", SleepBefore(i))
            /\ queried' = queried \cup {dates[i]}
            /\ dateLog' = [date |-> dates[i], queries |-> 1, refetches |-> 0,
                           rejected |-> (answer.kind = "nonce"), refreshed |-> FALSE,
                           retried |-> ""]
            /\ CASE then = "collect" -> Collect(r.appointments)
                 [] then = "skip"    -> Skip
                 [] OTHER            -> Goto(then)
    /\ UNCHANGED <<cycle, today, MonthsLookahead, file, seenAppointments, nonce, dates,
                   newAppointments, fileAtStart, loadResult, saveResult, nonceResult,
                   reportedBefore, ioOk, functionVars>>

\* scraper.go: if nonce, err = extractNonce(); err != nil { continue }
RefreshNonce ==
    /\ pc = "refresh"
    /\ \E page \in BookingPages :
         LET r == extractNonce(page)
             then == afterRefresh(r.err)
         IN /\ callGaps' = CallIssued(callGaps, "refresh", FALSE)
            /\ nonce' = r.nonce
            /\ dateLog' = [dateLog EXCEPT !.refetches = @ + 1,
                                          !.refreshed = (page.kind = "page")]
            /\ IF then = "skip" THEN Skip ELSE Goto(then)
    /\ UNCHANGED <<cycle, today, MonthsLookahead, file, seenAppointments, dates,
                   newAppointments, fileAtStart, loadResult, saveResult, nonceResult,
                   queried, reportedBefore, ioOk, functionVars>>

\* scraper.go: if appointments, err = checkDateAvailability(date, nonce); err != nil { continue }
RetryDate ==
    /\ pc = "retry"
    /\ \E answer \in Answers :
         LET r == checkDateAvailability(dates[i], nonce, answer)
             then == afterRetry(r.err)
         IN /\ callGaps' = CallIssued(callGaps, "retry", FALSE)
            /\ queried' = queried \cup {dates[i]}
            /\ dateLog' = [dateLog EXCEPT !.queries = @ + 1, !.retried = dates[i]]
            /\ CASE then = "collect" -> Collect(r.appointments)
                 [] then = "skip"    -> Skip
                 [] OTHER            -> Goto(then)
    /\ UNCHANGED <<cycle, today, MonthsLookahead, file, seenAppointments, nonce, dates,
                   newAppointments, fileAtStart, loadResult, saveResult, nonceResult,
                   reportedBefore, ioOk, functionVars>>

\* main.go: scrapeAppointments has returned its result; newAppointments :=
\* filterNewAppointments(...), the report (logNewAppointments) and the append
\* (of what was observed of the scan, the slots found are kept until the save)
FilterNew ==
    /\ pc = "filter"
    /\ newAppointments' = filterNewAppointments(allAppointments, seenAppointments)
    /\ seenAppointments' = MergeSeen(seenAppointments, newAppointments')
    /\ file' = StoreAfterReport(file, seenAppointments', newAppointments')
    /\ pc' = "persist"
    /\ nonce' = ""
    /\ dates' = <<>>
    /\ i' = 0
    /\ queried' = {}
    /\ skipped' = {}
    /\ dateLog' = NoDateLog
    /\ callGaps' = NoCalls
    /\ UNCHANGED found
    /\ UNCHANGED <<cycle, today, MonthsLookahead, allAppointments, fileAtStart,
                   loadResult, saveResult, nonceResult, reportedBefore, ioOk, functionVars>>

\* main.go: saveSeenAppointments(seenAppointments, config.DataFile), then the
\* cycle is complete and the process exits
Persist ==
    /\ pc = "persist"
    /\ \E outcome \in WriteOutcomes :
         LET r == saveSeenAppointments(seenAppointments, file, outcome)
         IN /\ file' = r.file
            /\ saveResult' = IF r.err = "nil" THEN "ok" ELSE "failed"
            /\ ioOk' = (ioOk /\ r.err = "nil")
    /\ pc' = "idle"
    /\ seenAppointments' = <<>>
    /\ allAppointments' = <<>>
    /\ found' = {}
    /\ UNCHANGED <<cycle, today, MonthsLookahead, nonce, dates, i, newAppointments,
                   fileAtStart, loadResult, nonceResult, queried, skipped,
                   dateLog, callGaps, reportedBefore, functionVars>>

Next ==
    \/ StartCycle
    \/ LoadSeen
    \/ InitialNonce
    \/ QueryDate
    \/ RefreshNonce
    \/ RetryDate
    \/ FilterNew
    \/ Persist

Spec == Init /\ [][Next]_vars

----------------------------------------------------------------------------
(* SpecFilter: filterNewAppointments on inputs drawn from bounded sets *)

\* the (Date, Time) pairs of the inputs
FilterPairs ==
    {<<"2024-05-15", "10:00 am - 11:00 am">>,
     <<"2024-05-15", "2:00 pm - 3:00 pm">>,
     <<"2024-05-16", "10:00 am - 11:00 am">>}

\* candidates: free or full; seen entries: recorded with one or two spaces
CandidateSlots == {Appointment(p[1], p[2], n, n > 0) : p \in FilterPairs, n \in {0, 1}}
SeenSlots == {Appointment(p[1], p[2], n, n > 0) : p \in FilterPairs, n \in {1, 2}}

CycleOff ==
    /\ pc = "off"
    /\ cycle = 0
    /\ today \in StartDates
    /\ MonthsLookahead = 1
    /\ file = MissingFile
    /\ seenAppointments = <<>>
    /\ nonce = ""
    /\ dates = <<>>
    /\ i = 0
    /\ allAppointments = <<>>
    /\ newAppointments = <<>>
    /\ fileAtStart = MissingFile
    /\ loadResult = "none"
    /\ saveResult = "none"
    /\ nonceResult = "none"
    /\ queried = {}
    /\ found = {}
    /\ skipped = {}
    /\ dateLog = NoDateLog
    /\ callGaps = NoCalls
    /\ reportedBefore = {}
    /\ ioOk = TRUE

InitFilter ==
    /\ CycleOff
    /\ StoreOff
    /\ WindowOff
    /\ PlannerOff
    /\ MonthOff
    /\ ConfigOff
    /\ SpacesOff
    /\ EmailOff
    /\ ParseOff
    /\ CellsOff
    /\ fPc = "input"
    /\ fAppointments \in SeqsUpTo(CandidateSlots, MaxCandidates)
    /\ fSeen \in SeqsUpTo(SeenSlots, MaxSeen)
    /\ fResult = <<>>
    /\ fSecond = <<>>

\* result := filterNewAppointments(appointments, seenAppointments)
ApplyFilter ==
    /\ fPc = "input"
    /\ fResult' = filterNewAppointments(fAppointments, fSeen)
    /\ fPc' = "filtered"
    /\ UNCHANGED <<fAppointments, fSeen, fSecond, outsideFilter>>

\* the same candidates against the seen list merged with the first result
ApplyFilterAgain ==
    /\ fPc = "filtered"
    /\ fSecond' = filterNewAppointments(fAppointments, fSeen \o fResult)
    /\ fPc' = "refiltered"
    /\ UNCHANGED <<fAppointments, fSeen, fResult, outsideFilter>>

NextFilter ==
    \/ ApplyFilter
    \/ ApplyFilterAgain

SpecFilter == InitFilter /\ [][NextFilter]_vars

----------------------------------------------------------------------------
(* SpecStore: saveSeenAppointments and loadSeenAppointments on one path *)

\* the slots of the lists that are saved
StoredSlots ==
    {Appointment(d, "10:00 am - 11:00 am", n, n > 0) : d \in {"2024-08-10", "2024-09-22"}, n \in {0, 2}}

\* the file at the path before the first call
StoreFiles == {MissingFile, EmptyFile, MalformedFile, ArrayFile(<<SeenOld>>)}

InitStore ==
    /\ CycleOff
    /\ FilterOff
    /\ WindowOff
    /\ PlannerOff
    /\ MonthOff
    /\ ConfigOff
    /\ SpacesOff
    /\ EmailOff
    /\ ParseOff
    /\ CellsOff
    /\ sPc = "input"
    /\ sList \in SeqsUpTo(StoredSlots, MaxStored)
    /\ sFile \in StoreFiles
    /\ sSaveErr = ""
    /\ sLoaded = [appointments |-> <<>>, err |-> ""]

\* err := saveSeenAppointments(sList, path)
SaveStore ==
    /\ sPc = "input"
    /\ \E outcome \in WriteOutcomes :
         LET r == saveSeenAppointments(sList, sFile, outcome)
         IN /\ sFile' = r.file
            /\ sSaveErr' = r.err
    /\ sPc' = "saved"
    /\ UNCHANGED <<sList, sLoaded, outsideStore>>

\* loaded, err := loadSeenAppointments(path), of the file as it was found
\* (loaded) or as the save left it (reloaded)
LoadStore ==
    /\ sPc \in {"input", "saved"}
    /\ \E readFails \in BOOLEAN : sLoaded' = loadSeenAppointments(sFile, readFails)
    /\ sPc' = IF sPc = "input" THEN "loaded" ELSE "reloaded"
    /\ UNCHANGED <<sList, sFile, sSaveErr, outsideStore>>

NextStore ==
    \/ SaveStore
    \/ LoadStore

SpecStore == InitStore /\ [][NextStore]_vars

----------------------------------------------------------------------------
(* SpecMonth: monthNameToNumber on texts drawn from a bounded set *)

Capitalized(text) == IF text = <<>> THEN text ELSE <<UpperOf(Head(text))>> \o Tail(text)

\* the first word of the input: month names as written, in lower case and in
\* mixed case, an abbreviation, a year, a word that is no month, nothing
MonthWords ==
    {Capitalized(monthNames[k]) : k \in DOMAIN monthNames}
    \cup {monthNames[2], monthNames[5]}
    \cup {<<"M", "a", "r", "C", "H">>, <<"J", "u", "n">>, <<"2", "0", "2", "3">>, <<"M", "a", "y", "b", "e">>, <<>>}

\* what follows the first word at once, and what follows that
MonthTails == {<<>>, <<",">>, <<".">>, <<";", ":">>, <<"!">>}
MonthRests == {<<>>, <<" ">>, <<" ", "2", "0", "2", "4">>, <<" ", "2", "0", "2", "5", " ", "x">>}

MonthTexts ==
    {lead \o word \o tail \o rest :
        lead \in {<<>>, <<" ">>}, word \in MonthWords, tail \in MonthTails, rest \in MonthRests}

InitMonth ==
    /\ CycleOff
    /\ FilterOff
    /\ StoreOff
    /\ WindowOff
    /\ PlannerOff
    /\ ConfigOff
    /\ SpacesOff
    /\ EmailOff
    /\ ParseOff
    /\ CellsOff
    /\ mPc = "input"
    /\ mInput \in MonthTexts
    /\ mResult = [month |-> 1, err |-> "", calls |-> 0]

\* m, err := monthNameToNumber(mInput)
ResolveMonth ==
    /\ mPc = "input"
    /\ mResult' = monthNameToNumber(mInput)
    /\ mPc' = "resolved"
    /\ UNCHANGED <<mInput, outsideMonth>>

NextMonth == ResolveMonth

SpecMonth == InitMonth /\ [][NextMonth]_vars

----------------------------------------------------------------------------
(* SpecWindow: filterAppointments on inputs drawn from bounded sets *)

\* the Month texts and the Day texts of the candidates
WindowMonths ==
    {<<"J", "a", "n", "u", "a", "r", "y", " ", "2", "0", "2", "4">>,
     <<"F", "e", "b", "r", "u", "a", "r", "y">>,
     <<"D", "e", "c", "e", "m", "b", "e", "r", " ", "2", "0", "2", "3">>,
     <<"J", "u", "n">>}
WindowDays == {<<"0">>, <<"1">>, <<"1", "5">>, <<"2", "0">>, <<"3", "1">>, <<"x">>}

\* the candidates: every month and day as an available slot, two as slots
\* that are not
WindowSlots ==
    {HtmlAppointment(m, d, TRUE) : m \in WindowMonths, d \in WindowDays}
    \cup {HtmlAppointment(<<"J", "a", "n", "u", "a", "r", "y", " ", "2", "0", "2", "4">>, d, FALSE) : d \in {<<"2", "0">>, <<"1">>}}

\* the seen lists: none, or the 20th of "January 2024"
WindowSeen == {<<>>, <<HtmlAppointment(<<"J", "a", "n", "u", "a", "r", "y", " ", "2", "0", "2", "4">>, <<"2", "0">>, TRUE)>>}

\* monthsAhead: the small values, and 11, with which the window reaches the
\* December after a day of January
InitWindow ==
    /\ CycleOff
    /\ FilterOff
    /\ StoreOff
    /\ PlannerOff
    /\ MonthOff
    /\ ConfigOff
    /\ SpacesOff
    /\ EmailOff
    /\ ParseOff
    /\ CellsOff
    /\ hPc = "input"
    /\ hNow \in {Date(2024, 1, 15), Date(2024, 12, 20)}
    /\ hMonthsAhead \in (0..MaxMonthsAhead) \cup {11}
    /\ hAppointments \in SeqsUpTo(WindowSlots, MaxWindowCandidates)
    /\ hSeen \in WindowSeen
    /\ hResult = <<>>

\* filtered := filterAppointments(hAppointments, hSeen, hMonthsAhead)
ApplyWindow ==
    /\ hPc = "input"
    /\ hResult' = filterAppointments(hAppointments, hSeen, hMonthsAhead, hNow)
    /\ hPc' = "filtered"
    /\ UNCHANGED <<hNow, hMonthsAhead, hAppointments, hSeen, outsideWindow>>

NextWindow == ApplyWindow

SpecWindow == InitWindow /\ [][NextWindow]_vars

----------------------------------------------------------------------------
(* SpecPlanner: generateDateRange and the plan of scrapeAppointments *)

\* start dates: the one of the test, dates before the end of a February
\* with and without the 29th and before the end of a year, and the last day of
\* a January that a February of 28 days follows
PlannerStarts ==
    {Date(2024, 5, 15), Date(2024, 2, 27), Date(2023, 2, 27), Date(2024, 12, 30),
     Date(2023, 1, 31)}

InitPlanner ==
    /\ CycleOff
    /\ FilterOff
    /\ StoreOff
    /\ WindowOff
    /\ MonthOff
    /\ ConfigOff
    /\ SpacesOff
    /\ EmailOff
    /\ ParseOff
    /\ CellsOff
    /\ pPc = "input"
    /\ pStart \in PlannerStarts
    /\ pDays \in 0..MaxRangeDays
    /\ pMonths \in 0..MaxPlanMonths
    /\ pResult = <<>>

\* dates := generateDateRange(pStart, pDays)
RangeDates ==
    /\ pPc = "input"
    /\ pResult' = generateDateRange(pStart, pDays)
    /\ pPc' = "ranged"
    /\ UNCHANGED <<pStart, pDays, pMonths, outsidePlanner>>

\* scrapeAppointments: dates := generateDateRange(time.Now(), monthsAhead * daysPerMonth)
PlanDates ==
    /\ pPc = "input"
    /\ pResult' = generateDateRange(pStart, daysToCheck(pMonths))
    /\ pPc' = "planned"
    /\ UNCHANGED <<pStart, pDays, pMonths, outsidePlanner>>

NextPlanner ==
    \/ RangeDates
    \/ PlanDates

SpecPlanner == InitPlanner /\ [][NextPlanner]_vars

----------------------------------------------------------------------------
(* SpecConfig: loadConfig on command lines and config files drawn from sets *)

\* a flag that was not passed or a field the file does not set, and one that is
NotSet(zero) == [set |-> FALSE, value |-> zero]
SetTo(v) == [set |-> TRUE, value |-> v]

\* the command lines: each flag passed or not; -months also with the value of
\* the default, -smtpPass also with the empty text
CommandLines ==
    [months : {NotSet(0), SetTo(1), SetTo(3)},
     smtpPass : {NotSet(""), SetTo("s3cret"), SetTo("")},
     toEmails : {NotSet(<<>>), SetTo(<<"a", ",", "b">>)},
     dataFile : {NotSet(""), SetTo("flag.json")}]

\* the config files: none given, one that cannot be read, one that is no
\* JSON, and JSON objects that set some of the options
ConfigFiles ==
    {[kind |-> k, fields |-> <<>>] : k \in {"none", "unreadable", "malformed"}}
    \cup {[kind |-> "json", fields |-> f] :
            f \in [monthsLookahead : {NotSet(0), SetTo(6)},
                   smtpPassword : {NotSet(""), SetTo("filepass")},
                   toEmails : {NotSet(<<>>), SetTo(<<<<"f">>>>)},
                   dataFile : {NotSet(""), SetTo("file.json")}]}

InitConfig ==
    /\ CycleOff
    /\ FilterOff
    /\ StoreOff
    /\ WindowOff
    /\ PlannerOff
    /\ MonthOff
    /\ SpacesOff
    /\ EmailOff
    /\ ParseOff
    /\ CellsOff
    /\ cPc = "input"
    /\ cInput \in [flags : CommandLines, file : ConfigFiles]
    /\ cResult = <<>>

\* config, err := loadConfig() of src/unnamed/part_004
LoadConfig ==
    /\ cPc = "input"
    /\ cResult' = loadConfig(cInput.flags, cInput.file)
    /\ cPc' = "loaded"
    /\ UNCHANGED <<cInput, outsideConfig>>

\* config, err := loadConfig() of src/melanzana-scraper/config.go
LoadConfigScraper ==
    /\ cPc = "input"
    /\ cResult' = loadConfigScraper(cInput.flags, cInput.file)
    /\ cPc' = "loadedScraper"
    /\ UNCHANGED <<cInput, outsideConfig>>

NextConfig ==
    \/ LoadConfig
    \/ LoadConfigScraper

SpecConfig == InitConfig /\ [][NextConfig]_vars

----------------------------------------------------------------------------
(* SpecSpaces: extractSpaces on texts drawn from a bounded set *)

\* the parts of the texts: what is in front, the number, the gap, the word,
\* the second gap and the end
SpacesLeads == {<<>>, <<" ", " ">>, <<"x">>}
SpacesNumbers == {<<>>, <<"0">>, <<"1">>, <<"3">>, <<"5">>, <<"1", "2">>, <<"0", "0", "7">>,
                  <<"N", "o">>}
SpacesGaps == {<<>>, <<" ">>, <<" ", "\t">>}
SpacesWords == {<<"s", "p", "a", "c", "e">>, <<"s", "p", "a", "c", "e", "s">>, <<"S", "p", "a", "c", "e", "s">>, <<"s", "p", "o", "t", "s">>}
SpacesEnds == {<<"a", "v", "a", "i", "l", "a", "b", "l", "e">>, <<"a", "v", "a", "i", "l", "a", "b", "l", "e">> \o <<" ", " ">>, <<"a", "v", "a", "i", "l", "a", "b", "l">>}

SpacesTexts ==
    {<<>>}
    \cup {lead \o number \o gap \o word \o gap2 \o end :
            lead \in SpacesLeads, number \in SpacesNumbers, gap \in SpacesGaps,
            word \in SpacesWords, gap2 \in {<<>>, <<" ">>}, end \in SpacesEnds}

InitSpaces ==
    /\ CycleOff
    /\ FilterOff
    /\ StoreOff
    /\ WindowOff
    /\ PlannerOff
    /\ MonthOff
    /\ ConfigOff
    /\ EmailOff
    /\ ParseOff
    /\ CellsOff
    /\ xPc = "input"
    /\ xText \in SpacesTexts
    /\ xResult = 0

\* spaces := extractSpaces(xText)
ExtractSpaces ==
    /\ xPc = "input"
    /\ xResult' = extractSpaces(xText)
    /\ xPc' = "extracted"
    /\ UNCHANGED <<xText, outsideSpaces>>

NextSpaces == ExtractSpaces

SpecSpaces == InitSpaces /\ [][NextSpaces]_vars

----------------------------------------------------------------------------
(* SpecEmail: buildEmailBody on lists of slots drawn from a bounded set *)

\* the slots of the lists: two dates, two time ranges, capacities of no, one
\* and two digits
EmailDates == {<<"2", "0", "2", "4", "-", "0", "5", "-", "1", "5">>, <<"2", "0", "2", "4", "-", "0", "5", "-", "1", "6">>}
EmailTimes == {<<"1", "0", ":", "0", "0", " ", "a", "m", " ", "-", " ", "1", "1", ":", "0", "0", " ", "a", "m">>,
               <<"2", ":", "0", "0", " ", "p", "m", " ", "-", " ", "3", ":", "0", "0", " ", "p", "m">>}
EmailSlots ==
    {[Date |-> d, Time |-> t, Spaces |-> n, IsAvailable |-> n > 0] :
        d \in EmailDates, t \in EmailTimes, n \in {0, 1, 2, 12}}

InitEmail ==
    /\ CycleOff
    /\ FilterOff
    /\ StoreOff
    /\ WindowOff
    /\ PlannerOff
    /\ MonthOff
    /\ ConfigOff
    /\ SpacesOff
    /\ ParseOff
    /\ CellsOff
    /\ ePc = "input"
    /\ eAppointments \in SeqsUpTo(EmailSlots, MaxEmailSlots)
    /\ eBody = <<>>

\* emailBody := buildEmailBody(eAppointments)
BuildEmailBody ==
    /\ ePc = "input"
    /\ eBody' = buildEmailBody(eAppointments)
    /\ ePc' = "built"
    /\ UNCHANGED <<eAppointments, outsideEmail>>

NextEmail == BuildEmailBody

SpecEmail == InitEmail /\ [][NextEmail]_vars

----------------------------------------------------------------------------
(* SpecParse: parseAppointmentSlots on elements drawn from a bounded set *)

InitParse ==
    /\ CycleOff
    /\ FilterOff
    /\ StoreOff
    /\ WindowOff
    /\ PlannerOff
    /\ MonthOff
    /\ ConfigOff
    /\ SpacesOff
    /\ EmailOff
    /\ CellsOff
    /\ tPc = "input"
    /\ tElements \in SeqsUpTo(ParseElements, MaxParseSlots)
    /\ tDate \in {"2024-05-15", "2024-12-31"}
    /\ tResult = <<>>

\* result, err := parseAppointmentSlots(htmlContent, tDate)
ParseSlots ==
    /\ tPc = "input"
    /\ tResult' = parseAppointmentSlots(tElements, tDate)
    /\ tPc' = "parsed"
    /\ UNCHANGED <<tElements, tDate, outsideParse>>

NextParse == ParseSlots

SpecParse == InitParse /\ [][NextParse]_vars

----------------------------------------------------------------------------
(* SpecCells: the day cells of parseAppointments, drawn from a bounded set *)

\* the class names the code asks for, and one it does not
CellClasses ==
    {"available", "active", "booked", "unavailable", "disabled", "past-day", "grey", "gray",
     "red", "calendar-day"}

\* the elements: a day number or another text, at most two classes, with a
\* hyperlink inside or without
CellElements ==
    [text : {<<"5">>, <<" ", "3", "1", "\n">>, <<"M", "o", "n">>},
     classes : {c \in SUBSET CellClasses : Cardinality(c) <= 2},
     hasLink : BOOLEAN]

\* currentMonth, as the headings gave it
CellMonth == <<"M", "a", "y", " ", "2", "0", "2", "5">>

InitCells ==
    /\ CycleOff
    /\ FilterOff
    /\ StoreOff
    /\ WindowOff
    /\ PlannerOff
    /\ MonthOff
    /\ ConfigOff
    /\ SpacesOff
    /\ EmailOff
    /\ ParseOff
    /\ dPc = "input"
    /\ dCells \in SeqsUpTo(CellElements, MaxCells)
    /\ dResult = <<>>

\* the loop over the elements found
ParseCells ==
    /\ dPc = "input"
    /\ dResult' = dayCells(dCells, CellMonth)
    /\ dPc' = "parsed"
    /\ UNCHANGED <<dCells, outsideCells>>

NextCells == ParseCells

SpecCells == InitCells /\ [][NextCells]_vars

----------------------------------------------------------------------------
(* Properties of filterNewAppointments (SpecFilter) *)

Filtered == fPc \in {"filtered", "refiltered"}

\* occurrences of x in the sequence s
Count(s, x) == Cardinality({k \in DOMAIN s : s[k] = x})

\* the (Date, Time) pair of a is the pair of some entry of the seen list
PairSeen(a, seen) == \E j \in DOMAIN seen : Pair(seen[j]) = Pair(a)

\* s is t with some elements left out
RECURSIVE IsSubsequence(_, _)
IsSubsequence(s, t) ==
    IF s = <<>> THEN TRUE
    ELSE IF t = <<>> THEN FALSE
    ELSE IF Head(s) = Head(t) THEN IsSubsequence(Tail(s), Tail(t))
    ELSE IsSubsequence(s, Tail(t))

\* C1: no returned slot has the (Date, Time) pair of a seen entry, whatever the
\* capacities are, and every occurrence of a candidate whose pair matches no
\* seen entry is returned
C1_SeenPairsSuppressed ==
    Filtered =>
        /\ \A k \in DOMAIN fResult : ~PairSeen(fResult[k], fSeen)
        /\ \A k \in DOMAIN fAppointments :
             ~PairSeen(fAppointments[k], fSeen)
                => Count(fResult, fAppointments[k]) = Count(fAppointments, fAppointments[k])

\* a candidate is dropped for a seen entry of the same pair and another
\* capacity, while a candidate with a pair not seen is kept
C1_Witness ==
    /\ fPc = "filtered"
    /\ \E k \in DOMAIN fAppointments, j \in DOMAIN fSeen :
         /\ Pair(fAppointments[k]) = Pair(fSeen[j])
         /\ fAppointments[k].Spaces # fSeen[j].Spaces
         /\ fAppointments[k] \notin Range(fResult)
    /\ \E k \in DOMAIN fAppointments :
         ~PairSeen(fAppointments[k], fSeen) /\ fAppointments[k] \in Range(fResult)

C5_SecondFilterEmpty ==
    fPc = "refiltered" => fSecond = <<>>

\* the first result was not empty and the seen list was not empty
C5_Witness ==
    /\ fPc = "refiltered"
    /\ fSeen # <<>>
    /\ fResult # <<>>
    /\ Len(fResult) < Len(fAppointments)

----------------------------------------------------------------------------
(* Properties of the cycle (Spec) *)

\* the scan of scrapeAppointments has handled the date dateLog describes
DateHandled == pc \in {"query", "filter"} /\ dateLog.queries > 0

\* C3: while every load and every save has succeeded, no slot the cycle
\* reports as new has the (Date, Time) pair of a slot an earlier cycle reported
C3_NotReportedTwice ==
    ioOk => \A k \in DOMAIN newAppointments : Pair(newAppointments[k]) \notin reportedBefore

\* the second cycle scraped a slot the first one reported, and reports another
C3_Witness ==
    /\ pc = "persist"
    /\ ioOk
    /\ cycle = 2
    /\ newAppointments # <<>>
    /\ \E a \in Range(allAppointments) : Pair(a) \in reportedBefore

\* C4 as stated: after a load that failed on malformed content the cycle makes
\* no token fetch and no query, reports nothing and leaves the file alone
C4_CorruptStoreAborts ==
    loadResult = "corrupt" =>
        /\ nonceResult = "none"
        /\ queried = {}
        /\ newAppointments = <<>>
        /\ file = fileAtStart

\* C7 as stated, for the cycles whose persist step wrote the file: every slot
\* the file held before the cycle is in the file after it
C7_StoreGrowsMonotonically ==
    (pc = "idle" /\ saveResult = "ok") => FileSlots(fileAtStart) \subseteq FileSlots(file)

\* C8 as stated: a rejected first query is followed by exactly one re-fetch
\* and exactly one more query of the same date
C8_RejectedThenRetriedOnce ==
    /\ dateLog.queries <= 2
    /\ dateLog.refetches <= 1
    /\ (DateHandled /\ dateLog.rejected) =>
          /\ dateLog.refetches = 1
          /\ dateLog.queries = 2
          /\ dateLog.retried = dateLog.date

\* C8 amended: a rejected first query is followed by exactly one re-fetch; the
\* same date is queried once more when the re-fetch succeeded and not at all
\* when it failed; a date not rejected is queried once and nothing is re-fetched
C8_RetriedOnceAfterRefresh ==
    /\ dateLog.queries <= 2
    /\ dateLog.refetches <= 1
    /\ (DateHandled /\ dateLog.rejected) =>
          /\ dateLog.refetches = 1
          /\ dateLog.refreshed => (dateLog.queries = 2 /\ dateLog.retried = dateLog.date)
          /\ ~dateLog.refreshed => (dateLog.queries = 1 /\ dateLog.retried = "")
    /\ (DateHandled /\ ~dateLog.rejected) =>
          /\ dateLog.refetches = 0
          /\ dateLog.queries = 1
    /\ (DateHandled /\ pc = "query") => dates[i] # dateLog.date

\* the first date was rejected, re-fetched, queried again without success and
\* skipped, and the loop is at the second date
C8_Witness ==
    /\ pc = "query"
    /\ i = 2
    /\ dateLog.rejected
    /\ dateLog.refreshed
    /\ dateLog.queries = 2
    /\ dates[1] \in skipped

\* C9: after a failed initial token extraction the cycle is over: no query, no
\* slot reported, no write, the store file as it was
C9_TokenFailureAborts ==
    nonceResult = "failed" =>
        /\ pc = "idle"
        /\ queried = {}
        /\ newAppointments = <<>>
        /\ saveResult = "none"
        /\ file = fileAtStart

\* the token extraction failed in a cycle that loaded a store with slots in it
C9_Witness ==
    /\ nonceResult = "failed"
    /\ loadResult = "ok"
    /\ FileSlots(fileAtStart) # {}

\* a cycle whose initial token extraction succeeded is never left before the
\* persist step: scrapeAppointments returned no error
ScanReturnsNoError ==
    (nonceResult = "ok" /\ pc = "idle") => saveResult # "none"

\* C10 as stated: every date of the plan is queried, the scan returns without
\* error and every slot found is in the result
C10_AllFoundReturned ==
    /\ ScanReturnsNoError
    /\ pc = "filter" =>
          /\ queried = Range(dates)
          /\ found \subseteq Range(allAppointments)

\* C10 amended: every date of the plan is queried, the scan returns without
\* error and every available slot found is in the result
C10_AllAvailableFoundReturned ==
    /\ ScanReturnsNoError
    /\ pc = "filter" =>
          /\ queried = Range(dates)
          /\ {a \in found : a.IsAvailable} \subseteq Range(allAppointments)

\* the first date was skipped for an error and the second one brought an
\* available slot, which is in the result
C10_Witness ==
    /\ pc = "filter"
    /\ Len(dates) = 2
    /\ dates[1] \in skipped
    /\ \E a \in found : a.Date = dates[2] /\ a.IsAvailable /\ a \in Range(allAppointments)

\* C11: the store file is written by the save alone, which is the last step of
\* the cycle: until the save has been called the file is as it was when the
\* cycle started, and once it has been called the cycle is over, so that no
\* remote call and no second write follows it
C11_WrittenOnceAtTheEnd ==
    /\ saveResult = "none" => file = fileAtStart
    /\ saveResult # "none" => pc = "idle"
    /\ pc \in {"load", "nonce", "query", "refresh", "retry", "filter", "persist"}
          => saveResult = "none"

\* a cycle that made its remote calls, reported new slots and then wrote them
C11_Witness ==
    /\ pc = "idle"
    /\ nonceResult = "ok"
    /\ saveResult = "ok"
    /\ newAppointments # <<>>
    /\ file # fileAtStart

----------------------------------------------------------------------------
(* Properties of the seen store (SpecStore) *)

\* loadSeenAppointments has returned and os.ReadFile did not fail on a file
\* that exists
LoadedReadable == sPc \in {"loaded", "reloaded"} /\ sLoaded.err # "failed to read"

\* C12: a file that does not exist and a file of zero bytes load as the empty
\* list without error; malformed content loads as an error and no list
C12_LoadOfMissingEmptyMalformed ==
    /\ (sPc \in {"loaded", "reloaded"} /\ sFile.kind = "missing")
          => sLoaded = [appointments |-> <<>>, err |-> "nil"]
    /\ (LoadedReadable /\ sFile.kind = "empty")
          => sLoaded = [appointments |-> <<>>, err |-> "nil"]
    /\ (LoadedReadable /\ sFile.kind = "malformed")
          => (sLoaded.err = "failed to unmarshal" /\ sLoaded.appointments = <<>>)

\* a file of zero bytes was loaded
C12_Witness ==
    /\ sPc = "loaded"
    /\ sFile = EmptyFile
    /\ sLoaded = [appointments |-> <<>>, err |-> "nil"]

----------------------------------------------------------------------------
(* Properties of monthNameToNumber (SpecMonth) *)

\* the first whitespace-delimited token of the input, lower-cased and with
\* trailing punctuation trimmed; the empty text when there is no token
FirstToken(text) ==
    IF Fields(text) = <<>> THEN <<>>
    ELSE TrimRight(ToLower(Fields(text)[1]), TrailingPunctuation)

\* C18 as stated: the input resolves to the month its first token names
\* whenever that token is a full month name, fails as an unknown month
\* otherwise, and at most one recursive call is made
C18_FirstTokenResolves ==
    mPc = "resolved" =>
        /\ MonthOf(FirstToken(mInput)) # 0
              => (mResult.err = "nil" /\ mResult.month = MonthOf(FirstToken(mInput)))
        /\ MonthOf(FirstToken(mInput)) = 0 => mResult.err = "unknown month name"
        /\ mResult.calls <= 1

----------------------------------------------------------------------------
(* Properties of filterAppointments (SpecWindow) *)

\* the days before the first of January of year y, counted from year 1
DaysBeforeYear(y) == 365 * (y - 1) + ((y - 1) \div 4) - ((y - 1) \div 100) + ((y - 1) \div 400)

\* the days of year y before the first of month m
DaysBeforeMonth(y, m) ==
    LET cumulative == <<0, 31, 59, 90, 120, 151, 181, 212, 243, 273, 304, 334>>
    IN cumulative[m] + (IF m > 2 /\ IsLeap(y) THEN 1 ELSE 0)

\* the number of the day t, counted from the first of January of year 1
Ordinal(t) == DaysBeforeYear(t.y) + DaysBeforeMonth(t.y, t.m) + t.d

\* first_day_of_month(today) + n months
FirstOfMonthPlus(t, n) ==
    LET count == 12 * t.y + (t.m - 1) + n
    IN Date(count \div 12, (count % 12) + 1, 1)

\* today <= d < first_day_of_month(today) + (monthsAhead + 1) months
WindowHolds(d, now, monthsAhead) ==
    /\ Ordinal(now) <= Ordinal(d)
    /\ Ordinal(d) < Ordinal(FirstOfMonthPlus(now, monthsAhead + 1))

\* C14: a candidate that is available, unseen and has a date is returned if
\* and only if today <= its date < the first day of the month after the
\* lookahead months; any other candidate is not returned; the order is kept
C14_WindowInclusiveExclusive ==
    hPc = "filtered" =>
        /\ IsSubsequence(hResult, hAppointments)
        /\ \A k \in DOMAIN hAppointments :
             LET appt == hAppointments[k]
             IN IF appt.IsAvailable /\ isNewAppointment(appt, hSeen) /\ Converts(appt)
                THEN appt \in Range(hResult)
                        <=> WindowHolds(apptDate(appt, hNow), hNow, hMonthsAhead)
                ELSE appt \notin Range(hResult)

\* today is the 15th of January, monthsAhead is 0: of the 1st of February, the
\* 15th and the 1st of January only the 15th, today, is returned
C14_Witness ==
    /\ hPc = "filtered"
    /\ hNow = Date(2024, 1, 15)
    /\ hMonthsAhead = 0
    /\ hSeen = <<>>
    /\ Len(hAppointments) = 2
    /\ apptDate(hAppointments[1], hNow) = Date(2024, 2, 1)
    /\ apptDate(hAppointments[2], hNow) = Date(2024, 1, 15)
    /\ hResult = <<hAppointments[2]>>

----------------------------------------------------------------------------
(* Properties of the per-day planner (SpecPlanner) *)

TwoDigits ==
    <<"01", "02", "03", "04", "05", "06", "07", "08", "09", "10", "11", "12", "13", "14",
      "15", "16", "17", "18", "19", "20", "21", "22", "23", "24", "25", "26", "27", "28",
      "29", "30", "31">>

\* YYYY-MM-DD
IsoDate(t) == ToString(t.y) \o "-" \o TwoDigits[t.m] \o "-" \o TwoDigits[t.d]

\* the calendar date with the day number n, among the dates of year y and of
\* the year after it
DateOfOrdinal(n, y) ==
    CHOOSE t \in {Date(yy, m, d) : yy \in {y, y + 1}, m \in 1..12, d \in 1..31} :
        t.d <= DaysIn(t.y, t.m) /\ Ordinal(t) = n

\* the k-th element of range is the date k - 1 days after start
ConsecutiveFrom(range, start) ==
    \A k \in DOMAIN range :
        range[k] = IsoDate(DateOfOrdinal(Ordinal(start) + k - 1, start.y))

\* C15: generateDateRange(start, N) is N dates, the k-th being start plus k - 1
\* days, and nothing for N = 0; the plan of scrapeAppointments is
\* monthsAhead * 30 such dates from today on
C15_ConsecutiveDatesFromStart ==
    /\ pPc = "ranged" => (Len(pResult) = pDays /\ ConsecutiveFrom(pResult, pStart))
    /\ (pPc = "ranged" /\ pDays = 0) => pResult = <<>>
    /\ pPc = "planned" => (Len(pResult) = pMonths * 30 /\ ConsecutiveFrom(pResult, pStart))

\* a plan of 60 dates that starts on 30 December and runs over the end of the
\* year and of a February of 28 days
C15_Witness ==
    /\ pPc = "planned"
    /\ pStart = Date(2024, 12, 30)
    /\ Len(pResult) = 60
    /\ pResult[1] = "2024-12-30"
    /\ pResult[3] = "2025-01-01"
    /\ pResult[60] = "2025-02-27"

\* the dates of the window of filterAppointments, written YYYY-MM-DD:
\* today <= d < first_day_of_month(today) + (monthsAhead + 1) months
WindowDates(now, monthsAhead) ==
    {IsoDate(t) : t \in {u \in {Date(yy, m, d) : yy \in {now.y, now.y + 1},
                                                 m \in 1..12, d \in 1..31} :
                           u.d <= DaysIn(u.y, u.m) /\ WindowHolds(u, now, monthsAhead)}}

\* C29 as stated: for monthsAhead >= 1 every date of the plan of
\* scrapeAppointments lies in the window of the novelty filter,
\* [today, first_day_of_month(today) + (monthsAhead + 1) months)
C29_PlanInsideWindow ==
    (pPc = "planned" /\ pMonths >= 1) =>
        Range(pResult) \subseteq WindowDates(pStart, pMonths)

\* C16 as stated: no remote call of a cycle is issued without a delay after
\* the remote call before it
C16_DelayBetweenAllCalls ==
    callGaps.undelayed = {}

\* C17 as stated: a cycle whose save failed is over like any other, and the
\* store file holds the slots it held before the cycle (here for the cycles
\* whose load succeeded)
C17_FailedSaveKeepsStore ==
    (saveResult = "failed" /\ loadResult = "ok") =>
        /\ pc = "idle"
        /\ FileSlots(file) = FileSlots(fileAtStart)

----------------------------------------------------------------------------
(* Properties of loadConfig (SpecConfig) *)

\* the value of the flag if it was passed, else the value of the file if a
\* file was given and sets the option, else the default
Layered(flag, flagValue, configFile, field, default) ==
    IF flag.set THEN flagValue
    ELSE IF configFile.kind = "json" /\ field.set THEN field.value
    ELSE default

\* the effective configuration by the layers
LayeredConfig(flags, configFile) ==
    LET fields == IF configFile.kind = "json" THEN configFile.fields
                  ELSE [monthsLookahead |-> NotSet(0), smtpPassword |-> NotSet(""),
                        toEmails |-> NotSet(<<>>), dataFile |-> NotSet("")]
    IN [MonthsLookahead |-> Layered(flags.months, flags.months.value, configFile,
                                    fields.monthsLookahead, DefaultConfig.MonthsLookahead),
        SMTPPassword |-> Layered(flags.smtpPass, flags.smtpPass.value, configFile,
                                 fields.smtpPassword, DefaultConfig.SMTPPassword),
        ToEmails |-> Layered(flags.toEmails, SplitComma(flags.toEmails.value), configFile,
                             fields.toEmails, DefaultConfig.ToEmails),
        DataFile |-> Layered(flags.dataFile, flags.dataFile.value, configFile,
                             fields.dataFile, DefaultConfig.DataFile)]

\* C19 as stated: in both versions, whenever loadConfig returns no error the
\* effective value of every option is the one the layers give
C19_FlagsOverFileOverDefaults ==
    (cPc \in {"loaded", "loadedScraper"} /\ cResult.err = "nil")
        => cResult.config = LayeredConfig(cInput.flags, cInput.file)

\* the layers hold for the version of src/unnamed/part_004
LayersOfVisitVersion ==
    (cPc = "loaded" /\ cResult.err = "nil")
        => cResult.config = LayeredConfig(cInput.flags, cInput.file)

----------------------------------------------------------------------------
(* Properties of extractSpaces (SpecSpaces) *)

\* the characters from..upto of text, as far as text reaches
Part(text, from, upto) ==
    IF from > upto \/ from > Len(text) THEN <<>>
    ELSE SubSeq(text, from, Min(upto, Len(text)))

AllDigits(text) == text # <<>> /\ \A k \in DOMAIN text : IsDigit(text[k])
AllSpaces(text) == text # <<>> /\ \A k \in DOMAIN text : IsSpace(text[k])

\* the numbers N such that text contains "<N> space available" or "<N> spaces
\* available", the digits of N not being the end of a longer run of digits:
\* the characters from..upto-1 are the digits, upto..word-1 the whitespace
NumbersAvailable(text) ==
    {DigitsValue(Part(text, from, upto - 1)) :
        <<from, upto>> \in
            {p \in (1..Len(text)) \X (2..Len(text)) :
                /\ p[1] < p[2]
                /\ AllDigits(Part(text, p[1], p[2] - 1))
                /\ (p[1] = 1 \/ ~IsDigit(text[p[1] - 1]))
                /\ \E word \in (p[2] + 1)..Len(text), w \in {<<"s", "p", "a", "c", "e", "s">>, <<"s", "p", "a", "c", "e">>},
                      end \in (p[2] + 1)..Len(text) :
                      /\ AllSpaces(Part(text, p[2], word - 1))
                      /\ Part(text, word, word + Len(w) - 1) = w
                      /\ word + Len(w) < end
                      /\ AllSpaces(Part(text, word + Len(w), end - 1))
                      /\ Part(text, end, end + 8) = <<"a", "v", "a", "i", "l", "a", "b", "l", "e">>}}

\* C20: extractSpaces returns N for a text that contains "<N> space available"
\* or "<N> spaces available", whatever surrounds it, and 0 for a text that
\* contains neither
C20_SpacesExtracted ==
    xPc = "extracted" =>
        IF NumbersAvailable(xText) = {} THEN xResult = 0
        ELSE NumbersAvailable(xText) = {xResult}

\* "  12 spaces available  " gives 12
C20_Witness ==
    /\ xPc = "extracted"
    /\ xText = <<" ", " ", "1", "2", " ", "s", "p", "a", "c", "e", "s", " ",
                 "a", "v", "a", "i", "l", "a", "b", "l", "e", " ", " ">>
    /\ xResult = 12

----------------------------------------------------------------------------
(* Properties of buildEmailBody (SpecEmail) *)

\* the length of the run of characters that are no line break at the head of text
RECURSIVE UntilBreak(_)
UntilBreak(text) ==
    IF text = <<>> \/ Head(text) = "\n" THEN 0 ELSE 1 + UntilBreak(Tail(text))

\* the lines of text: one more than there are line breaks
RECURSIVE LinesOf(_)
LinesOf(text) ==
    LET n == UntilBreak(text)
    IN IF n = Len(text) THEN <<text>>
       ELSE <<SubSeq(text, 1, n)>> \o LinesOf(SubSeq(text, n + 2, Len(text)))

\* the capacities of the slots of the model as they are written
WrittenNumbers == {<<"0">>, <<"1">>, <<"2">>, <<"3">>, <<"1", "2">>, <<"1", "3">>}

\* line is "- <date> at <time> (<capacity> spaces available)" for the slot
IsSlotLine(line, appt) ==
    \E number \in WrittenNumbers :
        /\ Atoi(number) = [value |-> appt.Spaces, ok |-> TRUE]
        /\ line = <<"-", " ">> \o appt.Date \o <<" ", "a", "t", " ">> \o appt.Time
                    \o <<" ", "(">> \o number \o <<" ", "s", "p", "a", "c", "e", "s", " ", "a", "v", "a", "i", "l", "a", "b", "l", "e", ")">>

\* C21: the body is the header line, an empty line, one line for every slot in
\* the order of the list, "- <date> at <time> (<capacity> spaces available)",
\* an empty line and the footer with the booking link, which ends the body;
\* for the empty list it is the header, the empty lines and the footer
C21_HeaderSlotLinesFooter ==
    ePc = "built" =>
        LET lines == LinesOf(eBody)
            n == Len(eAppointments)
        IN /\ Len(lines) = n + 4
           /\ lines[1] = <<"N", "e", "w", " ", "M", "e", "l", "a", "n", "z", "a", "n", "a", " ", "a", "p", "p", "o", "i", "n", "t", "m", "e", "n", "t", "s", " ", "f", "o", "u", "n", "d", ":">>
           /\ lines[2] = <<>>
           /\ \A k \in 1..n : IsSlotLine(lines[k + 2], eAppointments[k])
           /\ lines[n + 3] = <<>>
           /\ lines[n + 4] = <<"B", "o", "o", "k", " ", "a", "t", ":", " ", "h", "t", "t", "p", "s", ":", "/", "/", "m", "e", "l", "a", "n", "z", "a", "n", "a", ".", "c", "o", "m", "/", "b", "o", "o", "k", "-", "a", "n", "-", "a", "p", "p", "o", "i", "n", "t", "m", "e", "n", "t">>

\* two slots that differ, the second of capacity 12: two lines in their order
C21_Witness ==
    /\ ePc = "built"
    /\ Len(eAppointments) = 2
    /\ eAppointments[1].Date # eAppointments[2].Date
    /\ eAppointments[1].Spaces = 1
    /\ eAppointments[2].Spaces = 12
    /\ Len(LinesOf(eBody)) = 6

----------------------------------------------------------------------------
(* Further properties of filterAppointments (SpecWindow) *)

\* the month text carries an explicit year, its last field, that is earlier
\* than the year of time.Now()
YearBefore(month, currentYear) ==
    LET parts == Fields(month)
    IN /\ Len(parts) > 1
       /\ Atoi(parts[Len(parts)]).ok
       /\ Atoi(parts[Len(parts)]).value < currentYear

\* C22 as stated: no candidate whose month text carries an explicit year
\* earlier than the current year is returned, whatever monthsAhead is
C22_PastExplicitYearNotReturned ==
    hPc = "filtered" =>
        \A k \in DOMAIN hResult : ~YearBefore(hResult[k].Month, hNow.y)

\* the day of the candidate is a day of its resolved month and year
ValidDay(appt, now) ==
    LET monthNum == monthNameToNumber(appt.Month).month
        day == Atoi(appt.Day).value
    IN day >= 1 /\ day <= DaysIn(apptYear(appt.Month, monthNum, now), monthNum)

\* C23 as stated: a candidate whose day is no day of its resolved month and
\* year is not returned, and the candidates after it are still handled
C23_InvalidDaySkipped ==
    hPc = "filtered" =>
        /\ \A k \in DOMAIN hResult : ValidDay(hResult[k], hNow)
        /\ \A k \in DOMAIN hAppointments :
             (/\ hAppointments[k].IsAvailable
              /\ isNewAppointment(hAppointments[k], hSeen)
              /\ Converts(hAppointments[k])
              /\ ValidDay(hAppointments[k], hNow)
              /\ WindowHolds(apptDate(hAppointments[k], hNow), hNow, hMonthsAhead))
                => hAppointments[k] \in Range(hResult)

----------------------------------------------------------------------------
(* Further properties of the cycle (Spec) *)

\* C24: every slot the cycle reports as new, and every slot the cycle adds to
\* the store file, is available with a capacity above 0; a slot found with
\* capacity 0 is neither reported nor in the seen list that is saved
C24_OnlyAvailableReportedAndRecorded ==
    /\ \A k \in DOMAIN newAppointments :
         newAppointments[k].IsAvailable /\ newAppointments[k].Spaces > 0
    /\ \A a \in FileSlots(file) \ FileSlots(fileAtStart) : a.IsAvailable /\ a.Spaces > 0
    /\ pc = "persist" =>
          \A a \in found :
              a.Spaces = 0 => (a \notin Range(newAppointments) /\ a \notin Range(seenAppointments))

\* one answer of the scan held a slot of capacity 0 and a free one: the free
\* one was reported and appended, and is about to be saved
C24_Witness ==
    /\ pc = "persist"
    /\ \E a \in found, b \in found :
         /\ a.Spaces = 0
         /\ a.Date = b.Date
         /\ b.IsAvailable
         /\ b \in Range(newAppointments)
         /\ b \in Range(seenAppointments)

\* no two entries of a store file have the same (date, time) pair
PairsUnique(f) ==
    f.kind = "array" =>
        \A j \in DOMAIN f.data, k \in DOMAIN f.data :
            j # k => <<f.data[j].date, f.data[j].time>> # <<f.data[k].date, f.data[k].time>>

\* C27 as stated: the store file, which starts without two entries of the
\* same (date, time) pair, holds no two such entries after any completed cycle
\* (every file of InitialFiles is such a file)
C27_StorePairsStayUnique ==
    pc = "idle" => PairsUnique(file)

\* C28 as stated: every availability query of the scan (the first query of a
\* date and the query after a token re-fetch) carries a token that a successful
\* token extraction returned; after a failed re-fetch too
C28_QueriesCarryExtractedToken ==
    pc \in {"query", "retry"} => nonce \in Tokens

\* with the lookahead given, a cycle whose token extraction succeeded plans no
\* date, issues no query, finds nothing, does not crash, and ends with the
\* save of the list it loaded
ScansNothing(monthsAhead) ==
    (MonthsLookahead = monthsAhead /\ nonceResult = "ok") =>
        /\ pc # "crashed"
        /\ dates = <<>>
        /\ queried = {}
        /\ allAppointments = <<>>
        /\ newAppointments = <<>>
        /\ pc = "idle" => saveResult # "none"
        /\ (pc = "idle" /\ saveResult = "ok") =>
              /\ file.kind = "array"
              /\ FileSlots(file) = (IF loadResult = "ok" THEN FileSlots(fileAtStart) ELSE {})

\* C30 as stated: for every monthsAhead <= 0, negative values too, the scan
\* enumerates no date, issues no query and returns an empty result without
\* error or crash, and the cycle ends by persisting the loaded seen list unchanged
C30_NoLookaheadScansNothing ==
    \A monthsAhead \in {-1, 0} : ScansNothing(monthsAhead)

----------------------------------------------------------------------------
(* Properties of parseAppointmentSlots (SpecParse) *)

\* the range texts of the model that hold a time range, and the time range
\* each of them holds
RangesWithTimes ==
    {<<TimeRange, "10:00 am - 11:00 am">>,
     <<<<"2", ":", "0", "0", " ", "p", "m", " ", "-", " ", "3", ":", "0", "0", " ", "p", "m">>, "2:00 pm - 3:00 pm">>,
     <<<<" ", "9", ":", "3", "0", " ", "a", "m", "-", "1", "0", ":", "1", "5", " ", " ", "p", "m", "\n">>, "9:30 am - 10:15  pm">>,
     <<<<"f", "r", "o", "m", " ", "1", "1", "0", ":", "0", "0", " ", "a", "m", " ", "-", " ", "1", ":", "0", "0", " ", "p", "m", " ", "o", "n">>, "10:00 am - 1:00 pm">>}

\* the availability texts of the model that hold a number of spaces, and the number
SpotsWithNumbers ==
    {<<<<"2", " ", "s", "p", "a", "c", "e", "s", " ", "a", "v", "a", "i", "l", "a", "b", "l", "e">>, 2>>,
     <<<<"1", " ", "s", "p", "a", "c", "e", " ", "a", "v", "a", "i", "l", "a", "b", "l", "e">>, 1>>,
     <<<<"\n", " ", "1", "2", " ", "s", "p", "a", "c", "e", "s", " ", "a", "v", "a", "i", "l", "a", "b", "l", "e", " ">>, 12>>,
     <<<<"0", " ", "s", "p", "a", "c", "e", "s", " ", "a", "v", "a", "i", "l", "a", "b", "l", "e">>, 0>>}

HoldsNumber(text) == \E entry \in SpotsWithNumbers : entry[1] = text
NumberHeld(text) == (CHOOSE entry \in SpotsWithNumbers : entry[1] = text)[2]

HoldsTime(text) == \E entry \in RangesWithTimes : entry[1] = text
TimeHeld(text) == (CHOOSE entry \in RangesWithTimes : entry[1] = text)[2]

\* C25: the slots are those of the elements whose range text holds a time
\* range, in their order; each carries the date that was asked for and the
\* time range, its capacity is the number of the availability text, 0 when
\* that text is missing or holds no number of spaces, and it is available
\* exactly when the capacity is above 0
C25_SlotsOfMatchingTimeslots ==
    tPc = "parsed" =>
        LET kept == SelectSeq(tElements, LAMBDA e : HoldsTime(e.range))
        IN /\ Len(tResult) = Len(kept)
           /\ \A k \in DOMAIN tResult :
                /\ tResult[k].Date = tDate
                /\ tResult[k].Time = TimeHeld(kept[k].range)
                /\ tResult[k].IsAvailable = (tResult[k].Spaces > 0)
                /\ IF HoldsNumber(kept[k].spots)
                   THEN tResult[k].Spaces = NumberHeld(kept[k].spots)
                   ELSE tResult[k].Spaces = 0 /\ ~tResult[k].IsAvailable

\* an element without a time range is left out and the one after it, which
\* has no availability text, gives a slot of capacity 0 that is not available
C25_Witness ==
    /\ tPc = "parsed"
    /\ Len(tElements) = 2
    /\ ~HoldsTime(tElements[1].range)
    /\ tElements[1].spots # <<>>
    /\ tElements[2].spots = <<>>
    /\ tResult = <<Appointment(tDate, "10:00 am - 11:00 am", 0, FALSE)>>

----------------------------------------------------------------------------
(* Properties of the day cells of parseAppointments (SpecCells) *)

OpenClasses == {"available", "active"}
TakenClasses == {"booked", "unavailable", "disabled", "past-day", "grey", "gray", "red"}

\* the elements that are day cells, in their order
DayCellsOf(cells) == SelectSeq(cells, LAMBDA cell : TrimSpace(cell.text) \in {<<"5">>, <<"3", "1">>})

\* C26: every day cell gives one appointment, which is available when the cell
\* has the class available or active, whatever else it has; else not available
\* when it has one of the classes booked, unavailable, disabled, past-day,
\* grey, gray, red, with a hyperlink inside or without; else available when
\* there is a hyperlink inside; else not available
C26_AvailabilityByPriority ==
    dPc = "parsed" =>
        LET cells == DayCellsOf(dCells)
        IN /\ Len(dResult) = Len(cells)
           /\ \A k \in DOMAIN dResult :
                LET open == cells[k].classes \cap OpenClasses # {}
                    taken == cells[k].classes \cap TakenClasses # {}
                IN /\ dResult[k].Day = TrimSpace(cells[k].text)
                   /\ open => dResult[k].IsAvailable
                   /\ (~open /\ taken) => ~dResult[k].IsAvailable
                   /\ (~open /\ ~taken /\ cells[k].hasLink) => dResult[k].IsAvailable
                   /\ (~open /\ ~taken /\ ~cells[k].hasLink) => ~dResult[k].IsAvailable

\* a day cell with the classes active and red and no hyperlink is available
C26_Witness ==
    /\ dPc = "parsed"
    /\ Len(dCells) = 1
    /\ dCells[1].classes = {"active", "red"}
    /\ ~dCells[1].hasLink
    /\ Len(dResult) = 1
    /\ dResult[1].IsAvailable

====
